---- MODULE Spec2Model ----
(***************************************************************************)
(* Model of talos-vm-bootstrap's provisioning core:                        *)
(*   - bootstrap.Run, the fixed five-step pipeline (internal/bootstrap);   *)
(*   - ssh.runSSHCommand with ensureExpectedHostKey, the stabilization     *)
(*     re-scan and the known_hosts refresh (internal/ssh/exec.go);         *)
(*   - workflow.RefreshBootstrapFingerprint with stabilizeHostFingerprint;  *)
(*   - ssh.WaitForTCPPortWithStats (internal/ssh/check.go);                *)
(*   - summarizeSSHStderr and formatSSHRunError as functions of stderr;    *)
(*   - the four remote step scripts, run twice against one host;           *)
(*   - ssh.buildSSHArgs as a function of the ExecConfig;                   *)
(*   - the bootstrap and provision-and-bootstrap commands: config.Load,    *)
(*     Config.Validate, the forced strict mode, MergeBootstrapIntoStage2;  *)
(*   - two invocations in ssh.writeKnownHostsEntry on one known_hosts.    *)
(* Each subsystem has its own specification over the shared variables:     *)
(* SpecRun, SpecExec, SpecRefresh (SpecRefreshLive with fairness),         *)
(* SpecWait, SpecSummary, SpecPipeline, SpecArgs, SpecProvision and        *)
(* SpecWriters.                                                           *)
(***************************************************************************)
EXTENDS Integers, Sequences, FiniteSets, TLC

VARIABLES
    \* ---- bootstrap.Run ----
    opts,       \* Options{DryRun, HumanProgress}
    stepFn,     \* the five step functions: step index -> error text or Nil
    rpc,        \* position in Run
    idx,        \* loop variable i (0-based, as in the source)
    res,        \* the Result being built
    ret,        \* what Run returned: [res, err]; meaningful once rpc = "returned"
    invoked,    \* history: names of the steps whose action was invoked
    hb,         \* the heartbeat goroutine startStepHeartbeat started for each step
    ticks,      \* how many times a heartbeat ticker has fired
    hbTrace,    \* history: heartbeat lines printed and step results recorded, in order
    \* ---- ssh.runSSHCommand ----
    cfg,        \* ExecConfig
    knownHosts, \* the known_hosts file: sequence of lines
    kh0,        \* history: known_hosts as it was when the call started
    ens,        \* what ensureExpectedHostKey returned, once it has
    xpc,        \* position in runSSHCommand / ensureExpectedHostKey
    loc,        \* locals of the call in progress
    xret,       \* what runSSHCommand returned; meaningful once xpc = "done"
    trace,      \* history: external interactions of the call, in order
    \* ---- workflow.RefreshBootstrapFingerprint ----
    path,        \* the contract file's path, as passed
    result,      \* *BootstrapResult: the in-memory contract (or nil)
    file,        \* the contract file: <<>> or <<the contract saved in it>>
    ctxDone,     \* the 25 s deadline of the call has passed
    prev,        \* stabilizeHostFingerprint: prev
    consecutive, \* stabilizeHostFingerprint: consecutive
    lastErr,     \* stabilizeHostFingerprint: lastErr
    fpc,         \* position in RefreshBootstrapFingerprint / stabilizeHostFingerprint
    probes,      \* history: what each scan of the loop returned, in order
    stab,        \* what stabilizeHostFingerprint returned, once it has
    fret,        \* what RefreshBootstrapFingerprint returned; meaningful once fpc = "returned"
    start,       \* history: result and file as they were when the call started
    overslept,   \* history: a probeInterval pause ran to its end with ctx already done
    \* ---- ssh.WaitForTCPPortWithStats ----
    attempts,    \* the attempts parameter
    wi,          \* loop variable i
    stats,       \* TCPCheckStats (Attempts; Elapsed is not modelled)
    dialErr,     \* lastErr
    wctx,        \* ctx is done
    wpc,         \* position in WaitForTCPPortWithStats
    wret,        \* what it returned; meaningful once wpc = "returned"
    dials,       \* history: the outcome of each DialContext, conn.Close(), the cancel signal
    \* ---- ssh.summarizeSSHStderr / formatSSHRunError, called on their own ----
    stderrIn,    \* the stderr text, as its lines
    summary,     \* what summarizeSSHStderr returned
    fmtErr,      \* what formatSSHRunError returned
    spc,         \* which of the two has been called
    \* ---- two runs of the pipeline against one host ----
    hcfg,        \* config.Config: the fields the step scripts take
    host,        \* the remote machine's state
    host0,       \* history: the machine's state when the current run started
    remoteOps,   \* history: the commands the current run's scripts executed
    pass,        \* 1 for the first run, 2 for the second
    pstep,       \* index of the next step of the current run
    presults,    \* the current run's step statuses
    \* ---- ssh.buildSSHArgs, called on its own ----
    acfg,        \* ExecConfig
    sshArgs,     \* what buildSSHArgs returned
    apc,         \* whether it has been called
    \* ---- the bootstrap and provision-and-bootstrap commands ----
    command,          \* which of the two commands runs
    rawCfg,           \* the configuration file's content over defaultConfig()
    pathsGiven,       \* --bootstrap-result or --vm-config was passed
    human,            \* text output to a terminal (prompting allowed)
    promptFn,         \* the known-hosts prompt callback installed for the run
    stage2Cfg,        \* the command's stage2Cfg
    bootstrapFromRun, \* the command's bootstrapFromRun
    bootstrapResult,  \* the command's bootstrapResult
    runCfg,           \* the configuration bootstrap.Run was called with
    accepted,         \* history: the configurations Validate returned nil for
    cevents,          \* history: refresh outcome and start of bootstrap.Run, in order
    cpc,              \* position in the command
    cret,             \* what the command returned; meaningful once cpc = "returned"
    \* ---- two invocations writing one known_hosts file ----
    wstore,     \* the known_hosts file the two share
    wstore0,    \* history: the file before either wrote
    writers,    \* per invocation: position in writeKnownHostsEntry, and its entry
    wlog        \* history: the removes and appends that ran, in order

vars == <<opts, stepFn, rpc, idx, res, ret, invoked, hb, ticks, hbTrace,
          cfg, knownHosts, kh0, ens, xpc, loc, xret, trace,
          path, result, file, ctxDone, prev, consecutive, lastErr, fpc, probes, stab, fret,
          start, overslept, attempts, wi, stats, dialErr, wctx, wpc, wret, dials,
          stderrIn, summary, fmtErr, spc,
          hcfg, host, host0, remoteOps, pass, pstep, presults,
          acfg, sshArgs, apc,
          command, rawCfg, pathsGiven, human, promptFn, stage2Cfg, bootstrapFromRun,
          bootstrapResult, runCfg, accepted, cevents, cpc, cret,
          wstore, wstore0, writers, wlog>>

runVars  == <<opts, stepFn, rpc, idx, res, ret, invoked, hb, ticks, hbTrace>>
execVars == <<cfg, knownHosts, kh0, ens, xpc, loc, xret, trace>>
refreshVars == <<path, result, file, ctxDone, prev, consecutive, lastErr, fpc, probes,
                 stab, fret, start, overslept>>
waitVars == <<attempts, wi, stats, dialErr, wctx, wpc, wret, dials>>
summaryVars == <<stderrIn, summary, fmtErr, spc>>
pipelineVars == <<hcfg, host, host0, remoteOps, pass, pstep, presults>>
argsVars == <<acfg, sshArgs, apc>>
provisionVars == <<command, rawCfg, pathsGiven, human, promptFn, stage2Cfg, bootstrapFromRun,
                   bootstrapResult, runCfg, accepted, cevents, cpc, cret>>
writersVars == <<wstore, wstore0, writers, wlog>>

\* What a call of one subsystem leaves alone: the variables of the others.
exceptRun      == <<execVars, refreshVars, waitVars, summaryVars, pipelineVars, argsVars,
                     provisionVars, writersVars>>
exceptExec     == <<runVars, refreshVars, waitVars, summaryVars, pipelineVars, argsVars,
                     provisionVars, writersVars>>
exceptRefresh  == <<runVars, execVars, waitVars, summaryVars, pipelineVars, argsVars,
                     provisionVars, writersVars>>
exceptWait     == <<runVars, execVars, refreshVars, summaryVars, pipelineVars, argsVars,
                     provisionVars, writersVars>>
exceptSummary  == <<runVars, execVars, refreshVars, waitVars, pipelineVars, argsVars,
                     provisionVars, writersVars>>
exceptPipeline == <<runVars, execVars, refreshVars, waitVars, summaryVars, argsVars,
                     provisionVars, writersVars>>
exceptArgs     == <<runVars, execVars, refreshVars, waitVars, summaryVars, pipelineVars,
                     provisionVars, writersVars>>
exceptProvision == <<runVars, execVars, refreshVars, waitVars, summaryVars, pipelineVars,
                      argsVars, writersVars>>
exceptWriters  == <<runVars, execVars, refreshVars, waitVars, summaryVars, pipelineVars,
                     argsVars, provisionVars>>

Nil == "nil"

\* Go's strings.Contains on a text kept as a sequence of tokens.
Contains(text, tok) == \E k \in 1..Len(text) : text[k] = tok

\* Go's strings.Contains on strings.
StrContains(s, sub) ==
    \E i \in 1..(Len(s) - Len(sub) + 1) : SubSeq(s, i, i + Len(sub) - 1) = sub

\* strings.TrimSpace (the white space in the texts used here is the blank).
RECURSIVE TrimLeft(_)
TrimLeft(s) ==
    IF Len(s) > 0 /\ SubSeq(s, 1, 1) = " " THEN TrimLeft(SubSeq(s, 2, Len(s))) ELSE s

RECURSIVE TrimRight(_)
TrimRight(s) ==
    IF Len(s) > 0 /\ SubSeq(s, Len(s), Len(s)) = " "
    THEN TrimRight(SubSeq(s, 1, Len(s) - 1)) ELSE s

TrimSpace(s) == TrimRight(TrimLeft(s))

\* strings.ToLower on ASCII text.
LowerOf(c) ==
    CASE c = "A" -> "a" [] c = "B" -> "b" [] c = "C" -> "c" [] c = "D" -> "d"
      [] c = "E" -> "e" [] c = "F" -> "f" [] c = "G" -> "g" [] c = "H" -> "h"
      [] c = "I" -> "i" [] c = "J" -> "j" [] c = "K" -> "k" [] c = "L" -> "l"
      [] c = "M" -> "m" [] c = "N" -> "n" [] c = "O" -> "o" [] c = "P" -> "p"
      [] c = "Q" -> "q" [] c = "R" -> "r" [] c = "S" -> "s" [] c = "T" -> "t"
      [] c = "U" -> "u" [] c = "V" -> "v" [] c = "W" -> "w" [] c = "X" -> "x"
      [] c = "Y" -> "y" [] c = "Z" -> "z" [] OTHER -> c

RECURSIVE ToLower(_)
ToLower(s) ==
    IF Len(s) = 0 THEN "" ELSE LowerOf(SubSeq(s, 1, 1)) \o ToLower(SubSeq(s, 2, Len(s)))

\* strings.Join(lines, sep)
RECURSIVE Join(_, _)
Join(lines, sep) ==
    IF lines = <<>> THEN ""
    ELSE IF Len(lines) = 1 THEN lines[1]
    ELSE lines[1] \o sep \o Join(Tail(lines), sep)

(***************************************************************************)
(* bootstrap.Run                                                           *)
(***************************************************************************)

\* model.StepStatus* values
StepStatusPlanned == "planned"
StepStatusSuccess == "success"
StepStatusFailed  == "failed"

\* The step table of Run: name and description, in source order.
steps == <<
    [name |-> "ssh_connectivity", desc |-> "Check SSH TCP reachability"],
    [name |-> "os_hardening",     desc |-> "Apply idempotent OS hardening baseline"],
    [name |-> "docker_install",   desc |-> "Install pinned Docker version"],
    [name |-> "talosctl_install", desc |-> "Install pinned talosctl and verify checksum"],
    [name |-> "cluster_create",   desc |-> "Create Talos-in-Docker cluster if missing"] >>

total == Len(steps)

\* Error texts a step function may return.
StepErrs == {"boom", "exit status 1"}

\* The plan Run builds when opts.DryRun is set (a literal list in the source).
DryRunStepsMutSwapped == <<
    [Name |-> "ssh_connectivity", Status |-> StepStatusPlanned, Message |-> "Check SSH TCP reachability"],
    [Name |-> "docker_install",   Status |-> StepStatusPlanned, Message |-> "Install pinned Docker version"],
    [Name |-> "os_hardening",     Status |-> StepStatusPlanned, Message |-> "Apply idempotent OS hardening baseline"],
    [Name |-> "talosctl_install", Status |-> StepStatusPlanned, Message |-> "Install pinned talosctl and verify checksum"],
    [Name |-> "cluster_create",   Status |-> StepStatusPlanned, Message |-> "Create Talos-in-Docker cluster if missing"] >>

DryRunSteps == <<
    [Name |-> "ssh_connectivity", Status |-> StepStatusPlanned, Message |-> "Check SSH TCP reachability"],
    [Name |-> "os_hardening",     Status |-> StepStatusPlanned, Message |-> "Apply idempotent OS hardening baseline"],
    [Name |-> "docker_install",   Status |-> StepStatusPlanned, Message |-> "Install pinned Docker version"],
    [Name |-> "talosctl_install", Status |-> StepStatusPlanned, Message |-> "Install pinned talosctl and verify checksum"],
    [Name |-> "cluster_create",   Status |-> StepStatusPlanned, Message |-> "Create Talos-in-Docker cluster if missing"] >>

\* A nil error; every error is a non-empty sequence of text tokens.
NoErr == <<>>

\* The zero value of model.BootstrapResult.
ZeroResult == [Status |-> "", Steps |-> <<>>, Error |-> <<>>, DryRun |-> FALSE]

\* fmt.Sprintf("step %s failed: %v", s.name, err)
StepFailedText(name, err) == <<"step", name, "failed:", err>>

\* Result{Status: "running", ...} and the dry-run short circuit.
RunEnter ==
    /\ rpc = "enter"
    /\ IF opts.DryRun
       THEN /\ res' = [Status |-> "planned", Steps |-> DryRunSteps,
                       Error |-> <<>>, DryRun |-> TRUE]
            /\ ret' = [res |-> res', err |-> NoErr]
            /\ rpc' = "returned"
       ELSE /\ res' = [Status |-> "running", Steps |-> <<>>,
                       Error |-> <<>>, DryRun |-> FALSE]
            /\ ret' = ret
            /\ rpc' = "loop"
    /\ UNCHANGED <<opts, stepFn, idx, invoked, hb, ticks, hbTrace>>

\* Most firings of the heartbeat tickers in one Run.
MaxTicks == 2

\* A heartbeat goroutine: not started, blocked in its select, or returned;
\* whether its done channel is closed; whether ticker.C holds a tick.
NoHeartbeat == [st |-> "none", done |-> FALSE, tick |-> FALSE]

\* An entry of hbTrace.
HbEv(ev, name) == [ev |-> ev, step |-> name]

\* stopHeartbeat = startStepHeartbeat(s.name) when opts.HumanProgress is set:
\* the goroutine is started and enters its select.
StartHeartbeat(o, h, k) ==
    IF o.HumanProgress
    THEN [h EXCEPT ![k] = [st |-> "select", done |-> FALSE, tick |-> FALSE]]
    ELSE h

\* stopHeartbeat(): close(done), or the empty function when none was started.
StopHeartbeat(h, k) ==
    IF h[k].st = "none" THEN h ELSE [h EXCEPT ![k].done = TRUE]

\* Loop head: progress line, heartbeat start, then err := s.run(ctx) is called.
\* (a loop that calls the next action while one is still running)
StepBeginMutOverlap ==
    /\ rpc \in {"loop", "inflight"}
    /\ idx < total
    /\ invoked' = Append(invoked, steps[idx + 1].name)
    /\ hb' = StartHeartbeat(opts, hb, idx + 1)
    /\ rpc' = "inflight"
    /\ UNCHANGED <<opts, stepFn, idx, res, ret, ticks, hbTrace>>

StepBegin ==
    /\ rpc = "loop"
    /\ idx < total
    /\ invoked' = Append(invoked, steps[idx + 1].name)
    /\ hb' = StartHeartbeat(opts, hb, idx + 1)
    /\ rpc' = "inflight"
    /\ UNCHANGED <<opts, stepFn, idx, res, ret, ticks, hbTrace>>

\* The 5 s ticker of a running heartbeat fires: ticker.C (capacity 1) takes
\* the tick unless one is waiting in it.
TickerFires ==
    \E k \in 1..total :
        /\ hb[k].st = "select"
        /\ ~hb[k].tick
        /\ ticks < MaxTicks
        /\ hb' = [hb EXCEPT ![k].tick = TRUE]
        /\ ticks' = ticks + 1
        /\ UNCHANGED <<opts, stepFn, rpc, idx, res, ret, invoked, hbTrace>>

\* select takes case <-ticker.C and prints the heartbeat line. When done is
\* closed as well, select chooses between the two ready cases at random.
HeartbeatPrint ==
    \E k \in 1..total :
        /\ hb[k].st = "select"
        /\ hb[k].tick
        /\ hb' = [hb EXCEPT ![k].tick = FALSE]
        /\ hbTrace' = Append(hbTrace, HbEv("heartbeat", steps[k].name))
        /\ UNCHANGED <<opts, stepFn, rpc, idx, res, ret, invoked, ticks>>

\* select takes case <-done: the goroutine returns, the deferred
\* ticker.Stop() runs.
HeartbeatReturn ==
    \E k \in 1..total :
        /\ hb[k].st = "select"
        /\ hb[k].done
        /\ hb' = [hb EXCEPT ![k] = [st |-> "exited", done |-> TRUE, tick |-> FALSE]]
        /\ UNCHANGED <<opts, stepFn, rpc, idx, res, ret, invoked, ticks, hbTrace>>

\* s.run returned: stop the heartbeat, record the step, fail fast on error.
\* (a Run that records a failed step but keeps going)
StepEndMutNoStop ==
    /\ rpc = "inflight"
    /\ LET s   == steps[idx + 1]
           err == stepFn[idx + 1]
       IN IF err # Nil
          THEN /\ res' = [res EXCEPT
                           !.Steps = Append(@, [Name |-> s.name, Status |-> StepStatusFailed,
                                                Message |-> err]),
                           !.Status = "failed",
                           !.Error = StepFailedText(s.name, err)]
               /\ rpc' = "loop"
               /\ idx' = idx + 1
               /\ ret' = ret
          ELSE /\ res' = [res EXCEPT
                           !.Steps = Append(@, [Name |-> s.name, Status |-> StepStatusSuccess,
                                                Message |-> ""])]
               /\ rpc' = "loop"
               /\ idx' = idx + 1
               /\ ret' = ret
    /\ hb' = StopHeartbeat(hb, idx + 1)
    /\ hbTrace' = Append(hbTrace, HbEv("recorded", steps[idx + 1].name))
    /\ UNCHANGED <<opts, stepFn, invoked, ticks>>

\* (a Run that keeps only the newest entry of the step list)
StepEndMutKeepsLastOnly ==
    /\ rpc = "inflight"
    /\ LET s   == steps[idx + 1]
           err == stepFn[idx + 1]
       IN IF err # Nil
          THEN /\ res' = [res EXCEPT
                           !.Steps = Append(@, [Name |-> s.name, Status |-> StepStatusFailed,
                                                Message |-> err]),
                           !.Status = "failed",
                           !.Error = StepFailedText(s.name, err)]
               /\ ret' = [res |-> res', err |-> res'.Error]
               /\ rpc' = "returned"
               /\ idx' = idx
          ELSE /\ res' = [res EXCEPT
                           !.Steps = <<[Name |-> s.name, Status |-> StepStatusSuccess,
                                        Message |-> ""]>>]
               /\ ret' = ret
               /\ rpc' = "loop"
               /\ idx' = idx + 1
    /\ hb' = StopHeartbeat(hb, idx + 1)
    /\ hbTrace' = Append(hbTrace, HbEv("recorded", steps[idx + 1].name))
    /\ UNCHANGED <<opts, stepFn, invoked, ticks>>

StepEnd ==
    /\ rpc = "inflight"
    /\ LET s   == steps[idx + 1]
           err == stepFn[idx + 1]
       IN IF err # Nil
          THEN /\ res' = [res EXCEPT
                           !.Steps = Append(@, [Name |-> s.name, Status |-> StepStatusFailed,
                                                Message |-> err]),
                           !.Status = "failed",
                           !.Error = StepFailedText(s.name, err)]
               /\ ret' = [res |-> res', err |-> res'.Error]
               /\ rpc' = "returned"
               /\ idx' = idx
          ELSE /\ res' = [res EXCEPT
                           !.Steps = Append(@, [Name |-> s.name, Status |-> StepStatusSuccess,
                                                Message |-> ""])]
               /\ ret' = ret
               /\ rpc' = "loop"
               /\ idx' = idx + 1
    /\ hb' = StopHeartbeat(hb, idx + 1)
    /\ hbTrace' = Append(hbTrace, HbEv("recorded", steps[idx + 1].name))
    /\ UNCHANGED <<opts, stepFn, invoked, ticks>>

\* After the loop: res.Status = "success"; return res, nil.
\* (a Run that returns without setting the final status)
RunReturnSuccessMutKeepsRunning ==
    /\ rpc = "loop"
    /\ idx = total
    /\ res' = res
    /\ ret' = [res |-> res', err |-> NoErr]
    /\ rpc' = "returned"
    /\ UNCHANGED <<opts, stepFn, idx, invoked, hb, ticks, hbTrace>>

RunReturnSuccess ==
    /\ rpc = "loop"
    /\ idx = total
    /\ res' = [res EXCEPT !.Status = "success"]
    /\ ret' = [res |-> res', err |-> NoErr]
    /\ rpc' = "returned"
    /\ UNCHANGED <<opts, stepFn, idx, invoked, hb, ticks, hbTrace>>

(***************************************************************************)
(* internal/ssh/exec.go: data                                              *)
(***************************************************************************)

\* Longest ssh-keyscan output, in lines.
MaxScanLines == 2

\* cfg.Host; with port 22 knownHostsTarget returns it unchanged.
Host == "example.com"
OtherHost == "other.example.com"

\* Host keys, and a key field ssh.ParseAuthorizedKey rejects.
Keys == {"kA", "kB"}
BadKey == "garbage"

\* ssh.FingerprintSHA256(key)
FingerprintSHA256(key) ==
    CASE key = "kA" -> "SHA256:A"
      [] key = "kB" -> "SHA256:B"

\* One line of ssh-keyscan -H output / of known_hosts: the hashed host (the
\* salt makes two lines for the same host and key differ), and the key.
Line(h, k, s) == [host |-> h, key |-> k, salt |-> s]
NoLine == Line("", "", 0)

\* The lines a scan of Host may print.
ScanLines == {Line(Host, "kA", 1), Line(Host, "kA", 2),
              Line(Host, "kB", 1), Line(Host, BadKey, 1)}

SeqsUpTo(S, n) == UNION {[1..m -> S] : m \in 0..n}

\* What one ssh-keyscan run does: fails, or prints some lines.
ScanOutcomes ==
    {[ok |-> FALSE, out |-> <<>>]} \cup
    {[ok |-> TRUE, out |-> o] : o \in SeqsUpTo(ScanLines, MaxScanLines)}

\* cfg.KnownHostsMode as configured, before normalization.
RawModes == {"", "prompt", "accept-new", "auto-refresh", " Accept_New ", "bogus"}

\* strings.ToLower(strings.TrimSpace(mode))
LowerTrim(mode) == ToLower(TrimSpace(mode))

normalizeKnownHostsMode(mode) ==
    LET m == LowerTrim(mode)
    IN CASE m \in {"", "strict"}                   -> "strict"
         [] m = "prompt"                           -> "prompt"
         [] m \in {"accept-new", "accept_new"}     -> "accept-new"
         [] m \in {"auto-refresh", "auto_refresh"} -> "auto-refresh"
         [] OTHER                                  -> "strict"

\* normalizeKnownHostsMode on the configured modes, computed once.
NormalizedModes == [m \in RawModes |-> normalizeKnownHostsMode(m)]

\* Values of cfg.ExpectedHostKeySHA256 (already trimmed).
ExpectedValues == {"", "SHA256:B", "SHA256:does-not-match"}

\* The interactive callback: absent, or present (its answer is chosen when
\* it is called).
PromptAnswers == {"yes", "no", "error"}

\* stderr texts of a failed ssh run, as sequences of lines.
StderrTexts == {
    <<>>,
    <<"Host key verification failed. Offending ECDSA key in /tmp/known_hosts">>,
    <<"@ WARNING: REMOTE HOST IDENTIFICATION HAS CHANGED! @",
      "Host key verification failed.">>,
    <<"Host key verification failed.">>,
    <<"% Total    % Received", "something useful", "another useful line">> }

\* The phrases shouldAutoRefreshKnownHost looks for that strings.ToLower(line)
\* contains.
PhrasesIn(line) ==
    CASE line = "Host key verification failed. Offending ECDSA key in /tmp/known_hosts"
              -> {"host key verification failed", "offending"}
      [] line = "@ WARNING: REMOTE HOST IDENTIFICATION HAS CHANGED! @"
              -> {"host identification has changed"}
      [] line = "Host key verification failed."
              -> {"host key verification failed"}
      [] OTHER -> {}

\* strings.Contains(strings.ToLower(stderr), phrase)
StderrContains(stderr, phrase) ==
    \E k \in 1..Len(stderr) : phrase \in PhrasesIn(stderr[k])

\* The curl progress rows summarizeSSHStderr drops.
IsNoise(t) ==
    StrContains(t, "% Total") \/ StrContains(t, "Dload") \/ StrContains(t, "--:--:--")

(***************************************************************************)
(* internal/ssh/exec.go: pure functions                                    *)
(***************************************************************************)

\* knownHostsTarget(cfg) for port 22: the bare host.
knownHostsTarget == Host

IsKeyLine(line) == line.key \in Keys

\* scanHostKeyFingerprintSet, applied to what ssh-keyscan did: the first
\* parseable line is the preferred (fp, entry); allFPs maps every fingerprint
\* seen to the last entry that carried it. An entry is its line (the source
\* appends the line break).
scanHostKeyFingerprintSet(o) ==
    IF ~o.ok
    THEN [fp |-> "", entry |-> NoLine, allFPs |-> <<>>,
          err |-> <<"ssh-keyscan", knownHostsTarget, "exit status 1">>]
    ELSE LET v   == SelectSeq(o.out, IsKeyLine)
             fps == {FingerprintSHA256(v[k].key) : k \in 1..Len(v)}
             lastWith(f) ==
                 LET ks == {k \in 1..Len(v) : FingerprintSHA256(v[k].key) = f}
                 IN v[CHOOSE k \in ks : \A j \in ks : j <= k]
         IN IF Len(v) > 0
            THEN [fp |-> FingerprintSHA256(v[1].key), entry |-> v[1],
                  allFPs |-> [f \in fps |-> lastWith(f)], err |-> NoErr]
            ELSE [fp |-> "", entry |-> NoLine, allFPs |-> <<>>,
                  err |-> <<"no valid host key found for", knownHostsTarget>>]

\* ensureExpectedHostKey's test `_, ok := allFPs[expected]`.
\* (a test against the first-seen key only)
ExpectedInScanMutFirstOnly(expected, r) == expected = r.fp

ExpectedInScan(expected, r) == expected \in DOMAIN r.allFPs

\* fmt.Errorf("ssh host fingerprint mismatch (expected %s, got %s)", expected, fp)
MismatchErr(expected, fp) ==
    <<"ssh host fingerprint mismatch", "expected", expected, "got", fp>>

\* fmt.Errorf("known_hosts prompt failed: %w", pErr)
PromptFailedErr == <<"known_hosts prompt failed", "prompt error">>

\* fmt.Errorf("ssh host fingerprint changed during verification (%s -> %s); ...")
ChangedErr(firstFP, secondFP) ==
    <<"ssh host fingerprint", "changed during verification", firstFP, "->", secondFP,
      "retry after VM stabilizes">>

\* (a forget operation that removes nothing)
RemoveHostMutKeepsAll(store, target) == store

\* ssh-keygen -f knownHosts -R hostTarget, when it works.
RemoveHost(store, target) ==
    LET Keep(line) == line.host # target
    IN SelectSeq(store, Keep)

\* (a recovery test that forgets the trust mode)
shouldAutoRefreshKnownHostMutAnyMode(c, stderr) ==
    IF c.KnownHostsFile = ""
    THEN FALSE
    ELSE /\ StderrContains(stderr, "host key verification failed")
         /\ \/ StderrContains(stderr, "host identification has changed")
            \/ StderrContains(stderr, "offending")

\* (a recovery test that does not ask for a known_hosts file)
shouldAutoRefreshKnownHostMutNoPathCheck(c, stderr) ==
    LET mode == NormalizedModes[c.KnownHostsMode]
    IN IF mode # "auto-refresh" /\ mode # "prompt"
       THEN FALSE
       ELSE /\ StderrContains(stderr, "host key verification failed")
            /\ \/ StderrContains(stderr, "host identification has changed")
               \/ StderrContains(stderr, "offending")

shouldAutoRefreshKnownHost(c, stderr) ==
    IF c.KnownHostsFile = ""
    THEN FALSE
    ELSE LET mode == NormalizedModes[c.KnownHostsMode]
         IN IF mode # "auto-refresh" /\ mode # "prompt"
            THEN FALSE
            ELSE /\ StderrContains(stderr, "host key verification failed")
                 /\ \/ StderrContains(stderr, "host identification has changed")
                    \/ StderrContains(stderr, "offending")

\* stderr is kept as its lines; the Go string is the lines joined by "\n".
\* strings.TrimSpace(stderr) then drops the blank lines at both ends and the
\* white space around what is left.
RECURSIVE DropBlankHead(_)
DropBlankHead(lines) ==
    IF lines # <<>> /\ TrimSpace(Head(lines)) = "" THEN DropBlankHead(Tail(lines)) ELSE lines

RECURSIVE DropBlankTail(_)
DropBlankTail(lines) ==
    IF lines # <<>> /\ TrimSpace(lines[Len(lines)]) = ""
    THEN DropBlankTail(SubSeq(lines, 1, Len(lines) - 1)) ELSE lines

TrimmedText(stderr) ==
    LET ls == DropBlankTail(DropBlankHead(stderr))
        n  == Len(ls)
    IN IF n = 0 THEN ""
       ELSE IF n = 1 THEN TrimSpace(ls[1])
       ELSE Join(<<TrimLeft(ls[1])>> \o SubSeq(ls, 2, n - 1) \o <<TrimRight(ls[n])>>, "\n")

\* summarizeSSHStderr: the loop that fills filtered.
Filtered(stderr) ==
    LET Trimmed == [k \in 1..Len(stderr) |-> TrimSpace(stderr[k])]
        Keep(t) == t # "" /\ ~IsNoise(t)
    IN SelectSeq(Trimmed, Keep)

\* (a summary made of the first two informative lines)
summarizeSSHStderrMutFirstTwo(stderr) ==
    LET filtered == Filtered(stderr)
        n == Len(filtered)
    IN IF n = 0 THEN TrimmedText(stderr)
       ELSE IF n = 1 THEN filtered[1]
       ELSE Join(SubSeq(filtered, 1, 2), " | ")

summarizeSSHStderr(stderr) ==
    LET filtered == Filtered(stderr)
        n == Len(filtered)
    IN IF n = 0 THEN TrimmedText(stderr)
       ELSE IF n = 1 THEN filtered[1]
       ELSE Join(SubSeq(filtered, n - 1, n), " | ")

\* summarizeSSHStderr on the stderr texts of an ssh run, computed once.
Summaries == [e \in StderrTexts |-> summarizeSSHStderr(e)]

\* const max in formatSSHRunError
max == 360

\* formatSSHRunError: the error text as <<prefix, runErr>> or
\* <<prefix, runErr, the summary put between the parentheses>>.
formatSSHRunError(prefix, runErr, stderr) ==
    LET errText == IF stderr \in StderrTexts THEN Summaries[stderr]
                   ELSE summarizeSSHStderr(stderr)
    IN IF errText = ""
       THEN <<prefix, runErr>>
       ELSE IF Len(errText) > max
            THEN <<prefix, runErr, SubSeq(errText, 1, max) \o "...">>
            ELSE <<prefix, runErr, errText>>

\* The prefix RunCommand / RunScript pass to runSSHCommand.
Prefix(kind) == IF kind = "script" THEN "ssh run script failed" ELSE "ssh run command failed"

(***************************************************************************)
(* internal/ssh/exec.go: runSSHCommand, one call                           *)
(***************************************************************************)

\* One external interaction of the call, for the history.
Ev(op, ok, arg, fps, lines) ==
    [op |-> op, ok |-> ok, arg |-> arg, fps |-> fps, lines |-> lines]

ZeroLoc(kind) ==
    [kind |-> kind, fp |-> "", entry |-> NoLine, toWrite |-> NoLine,
     stdout |-> "", stderr |-> <<>>, runErr |-> ""]

NotReturned == [returned |-> FALSE, err |-> NoErr]

ZeroRet == [stdout |-> "", stderr |-> <<>>, err |-> NoErr]

\* return stdout, stderr, err
Return(stdout, stderr, err) ==
    /\ xret' = [stdout |-> stdout, stderr |-> stderr, err |-> err]
    /\ xpc' = "done"
    /\ loc' = ZeroLoc(loc.kind)

mode == NormalizedModes[cfg.KnownHostsMode]
expected == cfg.ExpectedHostKeySHA256

\* (a runSSHCommand that goes on to run the command after a trust failure)
EnsureFailMutRunsAnyway(err) ==
    /\ ens' = [returned |-> TRUE, err |-> err]
    /\ xpc' = "run"
    /\ UNCHANGED <<loc, xret>>

\* ensureExpectedHostKey returns err; runSSHCommand returns "", "", err.
EnsureFail(err) ==
    /\ ens' = [returned |-> TRUE, err |-> err]
    /\ Return("", <<>>, err)

\* ensureExpectedHostKey returns nil; runSSHCommand goes on to the command.
EnsureOk ==
    /\ ens' = [returned |-> TRUE, err |-> NoErr]
    /\ xpc' = "run"
    /\ xret' = xret

\* (a strict mode that lets a mismatch through to the stabilization check)
OnMismatchMutStrictProceeds(m, prompt) ==
    IF m = "prompt" THEN (IF prompt = "nil" THEN "fail" ELSE "prompt1") ELSE "delay"

\* (a prompt mode that proceeds when there is no callback to ask)
OnMismatchMutNoCallbackProceeds(m, prompt) ==
    IF m = "auto-refresh" THEN "delay"
    ELSE IF m = "prompt" THEN (IF prompt = "nil" THEN "delay" ELSE "prompt1")
    ELSE "fail"

\* (an auto-refresh mode that asks the callback when there is one)
OnMismatchMutAutoRefreshAsks(m, prompt) ==
    IF m = "auto-refresh" \/ m = "prompt"
    THEN IF prompt = "set" THEN "prompt1"
         ELSE IF m = "prompt" THEN "fail" ELSE "delay"
    ELSE "fail"

\* ensureExpectedHostKey on a mismatch: where the trust mode and the callback
\* send it.
OnMismatch(m, prompt) ==
    IF m = "auto-refresh" \/ m = "prompt"
    THEN IF m = "prompt"
         THEN (IF prompt = "nil" THEN "fail" ELSE "prompt1")
         ELSE "delay"
    ELSE "fail"

\* (a stabilization check that never sees a change)
FingerprintChangedMutNever(firstFP, secondFP) == FALSE

\* ensureStableScannedHostKey's test firstFP != secondFP.
FingerprintChanged(firstFP, secondFP) == firstFP # secondFP

\* ensureExpectedHostKey, up to the first scan.
\* (an ensureExpectedHostKey that scans whether or not a fingerprint is expected)
EnsureEnterMutAlwaysScans ==
    /\ xpc = "ensure"
    /\ IF cfg.KnownHostsFile = ""
       THEN EnsureFail(
                <<"known_hosts_file is required when expected host fingerprint is set">>)
       ELSE xpc' = "scan1" /\ UNCHANGED <<loc, xret, ens>>
    /\ UNCHANGED <<cfg, knownHosts, kh0, trace>>

EnsureEnter ==
    /\ xpc = "ensure"
    /\ IF expected = ""
       THEN EnsureOk /\ loc' = loc
       ELSE IF cfg.KnownHostsFile = ""
            THEN EnsureFail(
                     <<"known_hosts_file is required when expected host fingerprint is set">>)
            ELSE xpc' = "scan1" /\ UNCHANGED <<loc, xret, ens>>
    /\ UNCHANGED <<cfg, knownHosts, kh0, trace>>

\* The first scanHostKeyFingerprintSet of ensureExpectedHostKey and the
\* decision taken on its result.
FirstScan ==
    /\ xpc = "scan1"
    /\ \E o \in ScanOutcomes :
        LET r == scanHostKeyFingerprintSet(o)
        IN /\ trace' = Append(trace,
                          Ev("scan", r.err = NoErr, r.fp, DOMAIN r.allFPs, <<r.entry>>))
           /\ IF r.err # NoErr
              THEN EnsureFail(r.err)
              ELSE IF ExpectedInScan(expected, r)
              THEN /\ loc' = [loc EXCEPT !.toWrite = r.entry]
                   /\ xpc' = "write_remove"
                   /\ UNCHANGED <<xret, ens>>
              ELSE IF OnMismatch(mode, cfg.Prompt) = "fail"
              THEN EnsureFail(MismatchErr(expected, r.fp))
              ELSE /\ loc' = [loc EXCEPT !.fp = r.fp, !.entry = r.entry]
                   /\ xpc' = OnMismatch(mode, cfg.Prompt)
                   /\ UNCHANGED <<xret, ens>>
    /\ UNCHANGED <<cfg, knownHosts, kh0>>

\* cfg.Prompt("SSH host key changed (expected ..., got ...). Accept new host key?")
PromptMismatch ==
    /\ xpc = "prompt1"
    /\ \E a \in PromptAnswers :
        /\ trace' = Append(trace, Ev("prompt", a # "error", a, {}, <<>>))
        /\ IF a = "error"
           THEN EnsureFail(PromptFailedErr)
           ELSE IF a = "yes"
           THEN xpc' = "delay" /\ UNCHANGED <<loc, xret, ens>>
           ELSE EnsureFail(MismatchErr(expected, loc.fp))
    /\ UNCHANGED <<cfg, knownHosts, kh0>>

\* (a delay that is waited out whatever ctx says)
StabilizeDelayMutIgnoresCancel ==
    /\ xpc = "delay"
    /\ \E cancelled \in BOOLEAN :
        /\ trace' = Append(trace, Ev("sleep", ~cancelled, "", {}, <<>>))
        /\ xpc' = "scan2"
        /\ UNCHANGED <<loc, xret, ens>>
    /\ UNCHANGED <<cfg, knownHosts, kh0>>

\* ensureStableScannedHostKey: the 800 ms timer, or ctx.Done() first.
StabilizeDelay ==
    /\ xpc = "delay"
    /\ \E cancelled \in BOOLEAN :
        /\ trace' = Append(trace, Ev("sleep", ~cancelled, "", {}, <<>>))
        /\ IF cancelled
           THEN EnsureFail(<<"context canceled">>)
           ELSE xpc' = "scan2" /\ UNCHANGED <<loc, xret, ens>>
    /\ UNCHANGED <<cfg, knownHosts, kh0>>

\* (a stabilization check that hands back the first scan's entry)
StableEntryMutFirst(firstEntry, r) == firstEntry

\* The entry ensureStableScannedHostKey returns for trusting: secondEntry.
StableEntry(firstEntry, r) == r.entry

\* ensureStableScannedHostKey: the second scan and the comparison.
SecondScan ==
    /\ xpc = "scan2"
    /\ \E o \in ScanOutcomes :
        LET r == scanHostKeyFingerprintSet(o)
        IN /\ trace' = Append(trace,
                          Ev("scan", r.err = NoErr, r.fp, DOMAIN r.allFPs, <<r.entry>>))
           /\ IF r.err # NoErr
              THEN EnsureFail(r.err)
              ELSE IF loc.fp = "" \/ r.fp = ""
              THEN EnsureFail(<<"ssh host fingerprint scan returned empty value">>)
              ELSE IF FingerprintChanged(loc.fp, r.fp)
              THEN EnsureFail(ChangedErr(loc.fp, r.fp))
              ELSE IF StableEntry(loc.entry, r) = NoLine
              THEN EnsureFail(<<"ssh host key entry is empty after verification">>)
              ELSE /\ loc' = [loc EXCEPT !.toWrite = StableEntry(loc.entry, r)]
                   /\ xpc' = "write_remove"
                   /\ UNCHANGED <<xret, ens>>
    /\ UNCHANGED <<cfg, knownHosts, kh0>>

\* What the file system lets the two halves of a trust write do.
RemoveIO == {"mkdir fails", "removed", "remove fails"}
AppendIO == {"open fails", "write fails", "appended"}

\* writeKnownHostsEntry, first half: MkdirAll, then the best-effort
\* ssh-keygen -R whose result is ignored.
WriteRemove ==
    /\ xpc = "write_remove"
    /\ \E io \in RemoveIO :
        IF cfg.KnownHostsFile = ""
        THEN /\ EnsureFail(<<"known_hosts path is empty">>)
             /\ UNCHANGED <<knownHosts, trace>>
        ELSE IF io = "mkdir fails"
        THEN /\ EnsureFail(<<"create known_hosts dir", "permission denied">>)
             /\ UNCHANGED <<knownHosts, trace>>
        ELSE /\ knownHosts' = IF io = "removed"
                              THEN RemoveHost(knownHosts, knownHostsTarget)
                              ELSE knownHosts
             /\ trace' = Append(trace, Ev("remove", TRUE, io, {}, <<>>))
             /\ xpc' = "write_append"
             /\ UNCHANGED <<loc, xret, ens>>
    /\ UNCHANGED <<cfg, kh0>>

\* writeKnownHostsEntry, second half: OpenFile(O_APPEND) and WriteString(entry).
\* A write that fails is taken to have written nothing.
WriteAppend ==
    /\ xpc = "write_append"
    /\ \E io \in AppendIO :
        IF io = "appended"
        THEN /\ knownHosts' = Append(knownHosts, loc.toWrite)
             /\ trace' = Append(trace, Ev("append", TRUE, "ensure", {}, <<loc.toWrite>>))
             /\ EnsureOk
             /\ loc' = ZeroLoc(loc.kind)
        ELSE /\ EnsureFail(<<io, cfg.KnownHostsFile>>)
             /\ UNCHANGED <<knownHosts, trace>>
    /\ UNCHANGED <<cfg, kh0>>

\* How an ssh process ends: exit status 0, or an exit error with some stderr
\* (255 when ssh itself fails, the remote command's status otherwise).
ExitErr(stderr) ==
    IF StderrContains(stderr, "host key verification failed")
    THEN "exit status 255" ELSE "exit status 1"

SSHOutcomes ==
    {[ok |-> TRUE, stdout |-> "ok", stderr |-> <<>>, err |-> ""]} \cup
    {[ok |-> FALSE, stdout |-> "", stderr |-> e, err |-> ExitErr(e)] : e \in StderrTexts}

\* runSSHCommand after ensureExpectedHostKey returned nil: cmd.Run() and, when
\* it fails, the decision whether to recover.
SSHRun ==
    /\ xpc = "run"
    /\ \E o \in SSHOutcomes :
        /\ trace' = Append(trace, Ev("ssh", o.ok, o.err, {}, o.stderr))
        /\ IF o.ok
           THEN Return(o.stdout, o.stderr, NoErr)
           ELSE IF ~shouldAutoRefreshKnownHost(cfg, o.stderr)
           THEN Return(o.stdout, o.stderr,
                       formatSSHRunError(Prefix(loc.kind), o.err, o.stderr))
           ELSE IF mode = "prompt" /\ cfg.Prompt = "nil"
           THEN Return(o.stdout, o.stderr,
                       formatSSHRunError(Prefix(loc.kind), o.err, o.stderr))
           ELSE /\ loc' = [loc EXCEPT !.stdout = o.stdout, !.stderr = o.stderr,
                                      !.runErr = o.err]
                /\ xpc' = IF mode = "prompt" THEN "prompt2" ELSE "refresh_remove"
                /\ xret' = xret
    /\ UNCHANGED <<cfg, knownHosts, kh0, ens>>

\* cfg.Prompt("SSH host key changed. Accept new host key?")
PromptRetry ==
    /\ xpc = "prompt2"
    /\ \E a \in PromptAnswers :
        /\ trace' = Append(trace, Ev("prompt", a # "error", a, {}, <<>>))
        /\ IF a = "error"
           THEN Return(loc.stdout, loc.stderr, PromptFailedErr)
           ELSE IF a = "yes"
           THEN xpc' = "refresh_remove" /\ UNCHANGED <<loc, xret>>
           ELSE Return(loc.stdout, loc.stderr,
                       formatSSHRunError(Prefix(loc.kind), loc.runErr, loc.stderr))
    /\ UNCHANGED <<cfg, knownHosts, kh0, ens>>

\* autoRefreshKnownHost, first half: the guards, MkdirAll and the best-effort
\* ssh-keygen -R. A failure sends runSSHCommand to its final return with the
\* first run's error.
RefreshRemove ==
    /\ xpc = "refresh_remove"
    /\ \E io \in RemoveIO :
        IF Host = "" \/ cfg.KnownHostsFile = "" \/ io = "mkdir fails"
        THEN /\ Return(loc.stdout, loc.stderr,
                       formatSSHRunError(Prefix(loc.kind), loc.runErr, loc.stderr))
             /\ UNCHANGED <<knownHosts, trace>>
        ELSE /\ knownHosts' = IF io = "removed"
                              THEN RemoveHost(knownHosts, knownHostsTarget)
                              ELSE knownHosts
             /\ trace' = Append(trace, Ev("remove", TRUE, io, {}, <<>>))
             /\ xpc' = "refresh_scan"
             /\ UNCHANGED <<loc, xret>>
    /\ UNCHANGED <<cfg, kh0, ens>>

\* (a recovery that keeps only the scanned lines whose key has the expected
\* fingerprint)
RefreshOutputMutExpectedOnly(c, out) ==
    LET IsExpected(line) ==
            IsKeyLine(line) /\ FingerprintSHA256(line.key) = c.ExpectedHostKeySHA256
    IN IF c.ExpectedHostKeySHA256 = "" THEN out ELSE SelectSeq(out, IsExpected)

\* What autoRefreshKnownHost writes to known_hosts: f.Write(out), the scan's
\* output as it came.
RefreshOutput(c, out) == out

\* autoRefreshKnownHost, second half: one ssh-keyscan whose whole output is
\* appended to known_hosts, unparsed.
RefreshScan ==
    /\ xpc = "refresh_scan"
    /\ \E o \in ScanOutcomes, io \in AppendIO :
        IF o.ok /\ io = "appended"
        THEN /\ knownHosts' = knownHosts \o RefreshOutput(cfg, o.out)
             /\ trace' = trace \o <<Ev("scan", TRUE, "", {}, o.out),
                                    Ev("append", TRUE, "refresh", {},
                                       RefreshOutput(cfg, o.out))>>
             /\ xpc' = "retry"
             /\ UNCHANGED <<loc, xret>>
        ELSE /\ trace' = Append(trace, Ev("scan", o.ok, "", {}, <<>>))
             /\ Return(loc.stdout, loc.stderr,
                       formatSSHRunError(Prefix(loc.kind), loc.runErr, loc.stderr))
             /\ UNCHANGED knownHosts
    /\ UNCHANGED <<cfg, kh0, ens>>

\* The retry: a second ssh run whose outcome is returned as it is.
Retry ==
    /\ xpc = "retry"
    /\ \E o \in SSHOutcomes :
        /\ trace' = Append(trace, Ev("ssh", o.ok, o.err, {}, o.stderr))
        /\ IF o.ok
           THEN Return(o.stdout, o.stderr, NoErr)
           ELSE Return(o.stdout, o.stderr,
                       formatSSHRunError(Prefix(loc.kind), o.err, o.stderr))
    /\ UNCHANGED <<cfg, knownHosts, kh0, ens>>

(***************************************************************************)
(* internal/workflow: RefreshBootstrapFingerprint, one call                *)
(***************************************************************************)

\* Most scans one call makes before it waits for its deadline.
MaxProbes == 4

\* Fingerprints a scan may report.
FPs == {"SHA256:A", "SHA256:B", "SHA256:C"}

\* What scanHostKeyFingerprintFn returns: a fingerprint, a blank, or an error.
ProbeResults ==
    {[fp |-> f, err |-> NoErr] : f \in FPs \cup {""}} \cup
    {[fp |-> "", err |-> e] : e \in {<<"scan failed">>, <<"scan timed out">>}}

\* The contract as the caller holds it; nil is a record with isNil set.
NilContract ==
    [isNil |-> TRUE, VMName |-> "", IPAddress |-> "", SSHUser |-> "",
     SSHPrivateKey |-> "", SSHPort |-> 0, SSHHostFingerprint |-> ""]

Contracts ==
    {NilContract} \cup
    [isNil : {FALSE}, VMName : {"devvm"}, IPAddress : {"", "192.168.1.10"},
     SSHUser : {"dev"}, SSHPrivateKey : {"/tmp/id_ed25519"}, SSHPort : {0, 22},
     SSHHostFingerprint : {"", "SHA256:A", "SHA256:B"}]

\* (a save that leaves the user out)
SavedContractMutDropsUser(r) ==
    [VMName |-> r.VMName, IPAddress |-> r.IPAddress, SSHUser |-> "",
     SSHPrivateKey |-> r.SSHPrivateKey, SSHPort |-> r.SSHPort,
     SSHHostFingerprint |-> r.SSHHostFingerprint]

\* The vmconfig.BootstrapResult literal handed to SaveBootstrapResult.
SavedContract(r) ==
    [VMName |-> r.VMName, IPAddress |-> r.IPAddress, SSHUser |-> r.SSHUser,
     SSHPrivateKey |-> r.SSHPrivateKey, SSHPort |-> r.SSHPort,
     SSHHostFingerprint |-> r.SSHHostFingerprint]

\* What was in the contract file before: nothing, or an older contract.
StaleContract ==
    [VMName |-> "oldvm", IPAddress |-> "192.168.1.9", SSHUser |-> "olduser",
     SSHPrivateKey |-> "/tmp/old_key", SSHPort |-> 2222,
     SSHHostFingerprint |-> "SHA256:A"]

\* What SaveBootstrapResult does: writes the file, or fails.
SaveIO == {"saved", "save fails"}

\* const requiredConsecutive in stabilizeHostFingerprint
requiredConsecutive == 2

\* ctx.Err() once the deadline of context.WithTimeout has passed.
CtxErr == "context deadline exceeded"

\* The error stabilizeHostFingerprint returns on <-ctx.Done().
\* (an error that leaves the last probe error out)
StabilizeCtxErrMutDropsLast(last) == <<"stabilize ssh host fingerprint", CtxErr>>

StabilizeCtxErr(last) ==
    IF last # NoErr
    THEN <<"stabilize ssh host fingerprint", CtxErr, "last probe error">> \o last
    ELSE <<"stabilize ssh host fingerprint", CtxErr>>

\* (a counter that goes up on every non-empty observation)
ObserveMutCountsAny(p, c, fp) == [prev |-> fp, consecutive |-> c + 1]

\* stabilizeHostFingerprint: prev and consecutive after a non-empty fp.
Observe(p, c, fp) ==
    IF fp = p
    THEN [prev |-> p, consecutive |-> c + 1]
    ELSE [prev |-> fp, consecutive |-> 1]

\* return changed, err
FReturn(changed, err) ==
    /\ fret' = [changed |-> changed, err |-> err]
    /\ fpc' = "returned"

NotStabilized == [returned |-> FALSE, fp |-> "", err |-> NoErr]

\* (guards that let a blank host address through)
RefreshGuardMutBlankHost(p, r) ==
    IF r.isNil THEN "nil"
    ELSE IF TrimSpace(p) = "" THEN "noop"
    ELSE "go"

\* The guards of RefreshBootstrapFingerprint.
RefreshGuard(p, r) ==
    IF r.isNil THEN "nil"
    ELSE IF TrimSpace(p) = "" THEN "noop"
    ELSE IF TrimSpace(r.IPAddress) = "" THEN "noop"
    ELSE "go"

\* RefreshBootstrapFingerprint up to the call of stabilizeHostFingerprint.
RefreshEnter ==
    /\ fpc = "enter"
    /\ LET g == RefreshGuard(path, result)
       IN IF g = "nil" THEN FReturn(FALSE, <<"bootstrap result is nil">>)
          ELSE IF g = "noop" THEN FReturn(FALSE, NoErr)
          ELSE fpc' = "head" /\ fret' = fret
    /\ UNCHANGED <<path, result, file, ctxDone, prev, consecutive, lastErr, probes,
                   stab, start, overslept>>

\* The 25 s of context.WithTimeout run out.
Deadline ==
    /\ fpc \in {"head", "probe", "sleep"}
    /\ ~ctxDone
    /\ ctxDone' = TRUE
    /\ UNCHANGED <<path, result, file, prev, consecutive, lastErr, fpc, probes,
                   stab, fret, start, overslept>>

\* (a loop that never looks at ctx.Done())
LoopHeadMutIgnoresDeadline ==
    /\ fpc = "head"
    /\ Len(probes) < MaxProbes
    /\ fpc' = "probe"
    /\ UNCHANGED <<path, result, file, ctxDone, prev, consecutive, lastErr, probes,
                   stab, fret, start, overslept>>

\* stabilizeHostFingerprint, loop head: select on ctx.Done() with a default.
\* A call that has made MaxProbes scans waits here for its deadline.
LoopHead ==
    /\ fpc = "head"
    /\ IF ctxDone
       THEN /\ stab' = [returned |-> TRUE, fp |-> "", err |-> StabilizeCtxErr(lastErr)]
            /\ FReturn(FALSE, StabilizeCtxErr(lastErr))
       ELSE /\ Len(probes) < MaxProbes
            /\ fpc' = "probe"
            /\ UNCHANGED <<stab, fret>>
    /\ UNCHANGED <<path, result, file, ctxDone, prev, consecutive, lastErr, probes, start, overslept>>

\* (a loop in which a failed or empty scan forgets what was observed)
ProbeMutFailedResets ==
    /\ fpc = "probe"
    /\ \E r \in ProbeResults :
        /\ probes' = Append(probes, r)
        /\ IF r.err # NoErr \/ TrimSpace(r.fp) = ""
           THEN /\ lastErr' = IF r.err # NoErr THEN r.err ELSE lastErr
                /\ prev' = ""
                /\ consecutive' = 0
                /\ fpc' = "sleep"
                /\ UNCHANGED stab
           ELSE LET n == Observe(prev, consecutive, r.fp)
                IN /\ prev' = n.prev
                   /\ consecutive' = n.consecutive
                   /\ lastErr' = lastErr
                   /\ IF n.consecutive >= requiredConsecutive
                      THEN /\ stab' = [returned |-> TRUE, fp |-> r.fp, err |-> NoErr]
                           /\ fpc' = "finish"
                      ELSE /\ fpc' = "sleep"
                           /\ stab' = stab
    /\ UNCHANGED <<path, result, file, ctxDone, fret, start, overslept>>

\* One scan of the loop and what the loop does with its result.
Probe ==
    /\ fpc = "probe"
    /\ \E r \in ProbeResults :
        /\ probes' = Append(probes, r)
        /\ IF r.err # NoErr
           THEN /\ lastErr' = r.err
                /\ fpc' = "sleep"
                /\ UNCHANGED <<prev, consecutive, stab>>
           ELSE IF TrimSpace(r.fp) = ""
           THEN /\ fpc' = "sleep"
                /\ UNCHANGED <<prev, consecutive, lastErr, stab>>
           ELSE LET n == Observe(prev, consecutive, r.fp)
                IN /\ prev' = n.prev
                   /\ consecutive' = n.consecutive
                   /\ lastErr' = lastErr
                   /\ IF n.consecutive >= requiredConsecutive
                      THEN /\ stab' = [returned |-> TRUE, fp |-> r.fp, err |-> NoErr]
                           /\ fpc' = "finish"
                      ELSE /\ fpc' = "sleep"
                           /\ stab' = stab
    /\ UNCHANGED <<path, result, file, ctxDone, fret, start, overslept>>

\* time.Sleep(probeInterval), which returns when the interval is over and not
\* before, whatever ctx says; then the loop goes round.
ProbeSleep ==
    /\ fpc = "sleep"
    /\ fpc' = "head"
    /\ overslept' = (overslept \/ ctxDone)
    /\ UNCHANGED <<path, result, file, ctxDone, prev, consecutive, lastErr, probes,
                   stab, fret, start>>

\* RefreshBootstrapFingerprint after stabilizeHostFingerprint returned fp.
RefreshFinish ==
    /\ fpc = "finish"
    /\ IF stab.fp = "" \/ stab.fp = result.SSHHostFingerprint
       THEN /\ FReturn(FALSE, NoErr)
            /\ UNCHANGED <<result, file>>
       ELSE /\ result' = [result EXCEPT !.SSHHostFingerprint = stab.fp]
            /\ \E io \in SaveIO :
                 IF io = "saved"
                 THEN /\ file' = <<SavedContract(result')>>
                      /\ FReturn(TRUE, NoErr)
                 ELSE /\ file' = file
                      /\ FReturn(FALSE, <<"update bootstrap result", "permission denied">>)
    /\ UNCHANGED <<path, ctxDone, prev, consecutive, lastErr, probes, stab, start, overslept>>

RefreshIdle ==
    /\ path = ""
    /\ result = NilContract
    /\ file = <<>>
    /\ start = [result |-> NilContract, file |-> <<>>]
    /\ ctxDone = FALSE
    /\ prev = ""
    /\ consecutive = 0
    /\ lastErr = NoErr
    /\ fpc = "idle"
    /\ probes = <<>>
    /\ stab = NotStabilized
    /\ fret = [changed |-> FALSE, err |-> NoErr]
    /\ overslept = FALSE

(***************************************************************************)
(* internal/ssh/check.go: WaitForTCPPortWithStats, one call                *)
(***************************************************************************)

\* Largest value of the attempts parameter.
MaxAttempts == 3

\* fmt's %d
Itoa(n) == ToString(n)

\* How a DialContext on a live ctx ends.
DialOutcomes == {"connected", "refused", "timeout"}

\* The error of a failed DialContext.
DialError(outcome) ==
    CASE outcome = "refused" -> <<"dial tcp", "connect: connection refused">>
      [] outcome = "timeout" -> <<"dial tcp", "i/o timeout">>
      [] outcome = "ctx"     -> <<"dial tcp", "operation was canceled">>

\* ctx.Err() once ctx is cancelled.
CanceledErr == "context canceled"

\* fmt.Errorf("ssh connectivity canceled after %d attempts in %s: %w", ...)
WaitCanceledErr(n) ==
    <<"ssh connectivity canceled after", Itoa(n), "attempts", CanceledErr>>

\* fmt.Errorf("ssh connectivity failed after %d attempts in %s: %w", ...)
WaitFailedErr(n, last) ==
    <<"ssh connectivity failed after", Itoa(n), "attempts">> \o last

\* return stats, err
WReturn(err) ==
    /\ wret' = [stats |-> stats', err |-> err]
    /\ wpc' = "returned"

\* (a loop that goes round once more)
LoopCondMutInclusive(i, n) == i <= n

\* The loop condition i < attempts.
LoopCond(i, n) == i < n

\* for i := 0; i < attempts; i++ : the test, and the return after the loop.
WaitLoop ==
    /\ wpc = "loop"
    /\ stats' = stats
    /\ IF LoopCond(wi, attempts)
       THEN wpc' = "dial" /\ wret' = wret
       ELSE WReturn(WaitFailedErr(attempts, dialErr))
    /\ UNCHANGED <<attempts, wi, dialErr, wctx, dials>>

\* ctx is cancelled while the loop is not parked in its select.
WaitCancel ==
    /\ wpc \in {"loop", "dial"}
    /\ ~wctx
    /\ wctx' = TRUE
    /\ dials' = Append(dials, "cancel")
    /\ UNCHANGED <<attempts, wi, stats, dialErr, wpc, wret>>

\* (a loop that treats a connection like a failed attempt)
DialMutKeepsTrying ==
    /\ wpc = "dial"
    /\ stats' = [Attempts |-> wi + 1]
    /\ \E o \in (IF wctx THEN {"ctx"} ELSE DialOutcomes) :
        /\ dials' = Append(dials, o)
        /\ dialErr' = IF o = "connected" THEN dialErr ELSE DialError(o)
        /\ wpc' = "wait"
        /\ wret' = wret
    /\ UNCHANGED <<attempts, wi, wctx>>

\* stats.Attempts = i + 1 and one DialContext; a cancelled ctx fails it. A
\* connection is closed at once and ends the call.
Dial ==
    /\ wpc = "dial"
    /\ stats' = [Attempts |-> wi + 1]
    /\ \E o \in (IF wctx THEN {"ctx"} ELSE DialOutcomes) :
        /\ dials' = IF o = "connected" THEN dials \o <<o, "close">> ELSE Append(dials, o)
        /\ IF o = "connected"
           THEN WReturn(NoErr) /\ dialErr' = dialErr
           ELSE /\ dialErr' = DialError(o)
                /\ wpc' = "wait"
                /\ wret' = wret
    /\ UNCHANGED <<attempts, wi, wctx>>

\* (a wait that goes on to the next attempt when ctx is cancelled)
WaitSelectMutIgnoresCancel ==
    /\ wpc = "wait"
    /\ \E ev \in (IF wctx THEN {"timer"} ELSE {"timer", "cancel in wait"}) :
        /\ dials' = IF ev = "timer" THEN dials ELSE Append(dials, ev)
        /\ wctx' = (wctx \/ ev # "timer")
        /\ wi' = wi + 1
        /\ wpc' = "loop"
        /\ UNCHANGED <<stats, wret>>
    /\ UNCHANGED <<attempts, dialErr>>

\* The select between ctx.Done() and time.After(retryDelay). retryDelay is
\* positive (config.Validate), so a ctx that is already done wins, and
\* otherwise the first of the two to fire while the loop is parked wins.
WaitSelect ==
    /\ wpc = "wait"
    /\ \E ev \in (IF wctx THEN {"cancelled"} ELSE {"timer", "cancel in wait"}) :
        IF ev = "timer"
        THEN /\ wi' = wi + 1
             /\ wpc' = "loop"
             /\ UNCHANGED <<stats, wret, wctx, dials>>
        ELSE /\ wctx' = TRUE
             /\ dials' = IF ev = "cancelled" THEN dials ELSE Append(dials, ev)
             /\ stats' = stats
             /\ WReturn(WaitCanceledErr(stats.Attempts))
             /\ wi' = wi
    /\ UNCHANGED <<attempts, dialErr>>

WaitIdle ==
    /\ attempts = 0
    /\ wi = 0
    /\ stats = [Attempts |-> 0]
    /\ dialErr = NoErr
    /\ wctx = FALSE
    /\ wpc = "idle"
    /\ wret = [stats |-> [Attempts |-> 0], err |-> NoErr]
    /\ dials = <<>>

(***************************************************************************)
(* internal/ssh/exec.go: summarizeSSHStderr and formatSSHRunError, called  *)
(* on a stderr text                                                        *)
(***************************************************************************)

\* Longest stderr text, in lines.
MaxStderrLines == 3

RECURSIVE Rep(_, _)
Rep(s, n) == IF n = 0 THEN "" ELSE s \o Rep(s, n - 1)

\* A line longer than formatSSHRunError's limit (400 characters).
LongLine == Rep("0123456789", 40)

\* Lines of stderr: blank, curl's progress meter, informative ones.
StderrLines == {
    "",
    "  % Total    % Received % Xferd  Average Speed   Time",
    "                                 Dload  Upload   Total",
    "  0     0    0     0    0     0      0      0 --:--:-- --:--:--",
    "something useful",
    "another useful line",
    "  padded line  ",
    LongLine }

StderrInputs == SeqsUpTo(StderrLines, MaxStderrLines)

\* summarizeSSHStderr(stderr)
SummarizeCall ==
    /\ spc = "call"
    /\ summary' = summarizeSSHStderr(stderrIn)
    /\ spc' = "summarized"
    /\ UNCHANGED <<stderrIn, fmtErr>>

\* formatSSHRunError(prefix, runErr, stderr)
FormatCall ==
    /\ spc = "summarized"
    /\ \E kind \in {"command", "script"} :
         fmtErr' = formatSSHRunError(Prefix(kind), "exit status 1", stderrIn)
    /\ spc' = "formatted"
    /\ UNCHANGED <<stderrIn, summary>>

SummaryIdle ==
    /\ stderrIn = <<>>
    /\ summary = ""
    /\ fmtErr = NoErr
    /\ spc = "idle"

(***************************************************************************)
(* internal/bootstrap: the remote step scripts, run against one host by    *)
(* two runs of the pipeline in a row                                       *)
(***************************************************************************)

\* One command a script executes on the host: read-only, or one that
\* changes the machine (packages, files, services, firewall, cluster).
\* Scratch files (mktemp) are left out.
ReadOp(cmd) == [cmd |-> cmd, mutating |-> FALSE]
MutOp(cmd)  == [cmd |-> cmd, mutating |-> TRUE]

\* What a script did: the commands it executed, the machine afterwards, and
\* whether it exited 0.
Ran(ops, h, ok) == [ops |-> ops, host |-> h, ok |-> ok]

\* passwordAuth in runOSHardening
PasswordAuth(c) == IF c.AllowPasswordSSH THEN "yes" ELSE "no"

\* runOSHardening: nothing when disabled, else the script. net says whether
\* the package mirror can be reached.
OSHardeningScript(h, c, net) ==
    IF ~c.HardeningEnabled THEN Ran(<<>>, h, TRUE)
    ELSE IF ~h.pkgs /\ ~net
    THEN Ran(<<ReadOp("dpkg -s"), MutOp("apt-get update -y")>>, h, FALSE)
    ELSE
    LET pkgOps  == IF h.pkgs THEN <<>>
                   ELSE <<MutOp("apt-get update -y"), MutOp("apt-get install -y")>>
        sshOps  == IF h.sshDropin # PasswordAuth(c)
                   THEN <<MutOp("install -m 0644 TMP_SSH SSH_DROPIN"),
                          MutOp("systemctl reload ssh")>>
                   ELSE <<>>
        ctlOps  == IF h.sysctl # "target"
                   THEN <<MutOp("install -m 0644 TMP_SYSCTL SYSCTL_FILE"),
                          MutOp("sysctl -p SYSCTL_FILE")>>
                   ELSE <<>>
        ufwOps  == IF c.EnableUFW
                   THEN <<MutOp("ufw --force default deny incoming"),
                          MutOp("ufw --force default allow outgoing"),
                          ReadOp("ufw status")>>
                        \o (IF h.ufwAllow22 THEN <<>> ELSE <<MutOp("ufw allow 22/tcp")>>)
                        \o <<MutOp("ufw --force enable")>>
                   ELSE <<>>
        after   == [h EXCEPT !.pkgs = TRUE,
                             !.sshDropin = PasswordAuth(c),
                             !.sysctl = "target",
                             !.unattended = TRUE,
                             !.ufwDefaults = (@ \/ c.EnableUFW),
                             !.ufwAllow22 = (@ \/ c.EnableUFW),
                             !.ufwEnabled = (@ \/ c.EnableUFW)]
    IN Ran(<<ReadOp("dpkg -s")>> \o pkgOps
           \o <<MutOp("install -d -m 0755 /etc/ssh/sshd_config.d"), ReadOp("cmp -s TMP_SSH SSH_DROPIN")>>
           \o sshOps
           \o <<ReadOp("cmp -s TMP_SYSCTL SYSCTL_FILE")>> \o ctlOps
           \o <<MutOp("systemctl enable --now unattended-upgrades")>>
           \o ufwOps,
           after, TRUE)

\* runDockerInstall's script.
DockerInstallScript(h, net) ==
    LET groupOps == <<ReadOp("id -nG TARGET_USER")>>
                    \o (IF h.inDockerGroup THEN <<>>
                        ELSE <<MutOp("usermod -aG docker TARGET_USER")>>)
        probeOps == <<ReadOp("command -v docker")>>
                    \o (IF h.docker = "none" THEN <<>> ELSE <<ReadOp("docker --version")>>)
    IN IF h.docker = "target"
       THEN Ran(probeOps \o <<MutOp("systemctl enable --now docker")>> \o groupOps,
                [h EXCEPT !.dockerRunning = TRUE, !.inDockerGroup = TRUE], TRUE)
       ELSE IF ~net
       THEN Ran(probeOps \o <<MutOp("apt-get update -y")>>, h, FALSE)
       ELSE Ran(probeOps
                \o <<MutOp("apt-get update -y"),
                     MutOp("apt-get install -y ca-certificates curl gnupg lsb-release"),
                     MutOp("install -d -m 0755 /etc/apt/keyrings"),
                     MutOp("curl | gpg --dearmor -o docker.gpg"),
                     MutOp("chmod a+r docker.gpg"),
                     MutOp("printf REPO_LINE > docker.list"),
                     MutOp("apt-get update -y"),
                     ReadOp("apt-cache madison docker-ce"),
                     MutOp("apt-get install -y docker-ce"),
                     MutOp("apt-mark hold"),
                     MutOp("systemctl enable --now docker")>>
                \o groupOps \o <<ReadOp("docker --version")>>,
                [h EXCEPT !.docker = "target", !.dockerRunning = TRUE,
                          !.inDockerGroup = TRUE], TRUE)

\* runTalosctlInstall's script.
TalosctlInstallScript(h, net) ==
    LET probeOps == <<ReadOp("dpkg --print-architecture"), ReadOp("command -v talosctl")>>
                    \o (IF h.talosctl = "none" THEN <<>>
                        ELSE <<ReadOp("talosctl version --client")>>)
    IN IF h.talosctl = "target"
       THEN Ran(probeOps, h, TRUE)
       ELSE IF ~net
       THEN Ran(probeOps \o <<ReadOp("curl -fsSL URL -o BIN_PATH")>>, h, FALSE)
       ELSE Ran(probeOps
                \o <<ReadOp("curl -fsSL URL -o BIN_PATH"), ReadOp("sha256sum -c"),
                     MutOp("install -m 0755 BIN_PATH /usr/local/bin/talosctl"),
                     ReadOp("talosctl version --client")>>,
                [h EXCEPT !.talosctl = "target"], TRUE)

\* runClusterCreate's script. net says whether talosctl cluster create works.
ClusterCreateScript(h, net) ==
    LET mountOps == <<ReadOp("test -d MOUNT_SRC")>>
                    \o (IF h.mountSrc THEN <<>> ELSE <<MutOp("install -d -m 0755 MOUNT_SRC")>>)
        showOps  == <<ReadOp("talosctl cluster show")>>
        skip     == h.cluster = "single" /\ h.artifacts
        destroy  == IF h.cluster # "none"
                    THEN <<MutOp("talosctl cluster destroy --force")>> ELSE <<>>
        prepOps  == <<MutOp("mkdir -p STATE_PARENT STATE_DIR"), MutOp("chown -R STATE_DIR"),
                      MutOp("mkdir -p TALOS_HOME"), MutOp("chown -R TALOS_HOME"),
                      ReadOp("test -d STATE_DIR && test -w STATE_DIR"),
                      MutOp("talosctl cluster create docker --workers 0")>>
        cleared  == [h EXCEPT !.mountSrc = TRUE, !.cluster = "none", !.artifacts = FALSE]
    IN IF skip
       THEN Ran(mountOps \o showOps \o <<ReadOp("test -s TALOSCONFIG && test -s KUBECONFIG")>>,
                [h EXCEPT !.mountSrc = TRUE], TRUE)
       ELSE IF ~net
       THEN Ran(mountOps \o showOps \o destroy \o prepOps \o showOps, cleared, FALSE)
       ELSE Ran(mountOps \o showOps \o destroy \o prepOps
                \o <<ReadOp("test -s TALOSCONFIG"), ReadOp("talosctl cluster show"),
                     MutOp("talosctl kubeconfig KUBECONFIG --force"),
                     ReadOp("test -s KUBECONFIG")>>,
                [h EXCEPT !.mountSrc = TRUE, !.cluster = "single", !.artifacts = TRUE],
                TRUE)

\* The run's bookkeeping after a step: record it, go on or stop (fail-fast).
StepDone(k, r) ==
    /\ pstep = k
    /\ host' = r.host
    /\ remoteOps' = remoteOps \o r.ops
    /\ presults' = Append(presults,
                          [Name |-> steps[k].name,
                           Status |-> IF r.ok THEN StepStatusSuccess ELSE StepStatusFailed])
    /\ pstep' = IF r.ok THEN k + 1 ELSE 0
    /\ UNCHANGED <<hcfg, host0, pass>>

\* Step 1: WaitForTCPPortWithStats; no command runs on the host.
PConnectivity == \E reachable \in BOOLEAN : StepDone(1, Ran(<<>>, host, reachable))

POSHardening == \E net \in BOOLEAN : StepDone(2, OSHardeningScript(host, hcfg, net))

PDockerInstall == \E net \in BOOLEAN : StepDone(3, DockerInstallScript(host, net))

PTalosctlInstall == \E net \in BOOLEAN : StepDone(4, TalosctlInstallScript(host, net))

PClusterCreate == \E net \in BOOLEAN : StepDone(5, ClusterCreateScript(host, net))

\* The first run is over (pstep is 0 after a failure, total + 1 after the
\* last step); the pipeline is run again.
SecondRun ==
    /\ pass = 1
    /\ pstep \in {0, total + 1}
    /\ pass' = 2
    /\ pstep' = 1
    /\ presults' = <<>>
    /\ remoteOps' = <<>>
    /\ host0' = host
    /\ UNCHANGED <<hcfg, host>>

\* A machine as created, one where an earlier run got part of the way, and
\* the hardening side of one already at target.
HardeningProfiles == {
    [pkgs |-> FALSE, sshDropin |-> "absent", sysctl |-> "absent", unattended |-> FALSE,
     ufwDefaults |-> FALSE, ufwAllow22 |-> FALSE, ufwEnabled |-> FALSE],
    [pkgs |-> TRUE, sshDropin |-> "yes", sysctl |-> "target", unattended |-> TRUE,
     ufwDefaults |-> FALSE, ufwAllow22 |-> FALSE, ufwEnabled |-> FALSE],
    [pkgs |-> TRUE, sshDropin |-> "no", sysctl |-> "target", unattended |-> TRUE,
     ufwDefaults |-> TRUE, ufwAllow22 |-> TRUE, ufwEnabled |-> TRUE] }

DockerProfiles == {
    [docker |-> "none", dockerRunning |-> FALSE, inDockerGroup |-> FALSE],
    [docker |-> "old", dockerRunning |-> TRUE, inDockerGroup |-> TRUE],
    [docker |-> "target", dockerRunning |-> TRUE, inDockerGroup |-> FALSE],
    [docker |-> "target", dockerRunning |-> TRUE, inDockerGroup |-> TRUE] }

ClusterProfiles == {
    [cluster |-> "none", artifacts |-> FALSE, mountSrc |-> FALSE],
    [cluster |-> "single", artifacts |-> FALSE, mountSrc |-> TRUE],
    [cluster |-> "single", artifacts |-> TRUE, mountSrc |-> TRUE],
    [cluster |-> "workers", artifacts |-> TRUE, mountSrc |-> TRUE] }

InitialHosts ==
    {[pkgs |-> a.pkgs, sshDropin |-> a.sshDropin, sysctl |-> a.sysctl,
      unattended |-> a.unattended, ufwDefaults |-> a.ufwDefaults,
      ufwAllow22 |-> a.ufwAllow22, ufwEnabled |-> a.ufwEnabled,
      docker |-> d.docker, dockerRunning |-> d.dockerRunning,
      inDockerGroup |-> d.inDockerGroup, talosctl |-> t,
      cluster |-> c.cluster, artifacts |-> c.artifacts, mountSrc |-> c.mountSrc] :
        a \in HardeningProfiles, d \in DockerProfiles,
        t \in {"none", "old", "target"}, c \in ClusterProfiles}

PipelineConfigs ==
    [HardeningEnabled : BOOLEAN, AllowPasswordSSH : BOOLEAN, EnableUFW : BOOLEAN]

PipelineIdle ==
    /\ hcfg = [HardeningEnabled |-> FALSE, AllowPasswordSSH |-> FALSE, EnableUFW |-> FALSE]
    /\ host = CHOOSE h \in InitialHosts : h.docker = "none" /\ ~h.pkgs /\ h.talosctl = "none"
                                           /\ h.cluster = "none"
    /\ host0 = host
    /\ remoteOps = <<>>
    /\ pass = 0
    /\ pstep = 0
    /\ presults = <<>>

(***************************************************************************)
(* internal/ssh/exec.go: buildSSHArgs, called on an ExecConfig             *)
(***************************************************************************)

hostKeyAlgorithm == "ssh-ed25519"

\* cfg.KnownHostsMode as buildSSHArgs may receive it.
ArgModes == {"", "strict", "prompt", "accept-new", "accept_new", " Accept-New ",
             "auto-refresh", "AUTO_REFRESH", "bogus", "acceptnew"}

\* cfg.KnownHostsFile as buildSSHArgs may receive it: Validate lets a blank
\* path through when neither the mode nor a fingerprint needs the file.
ArgFiles == {"", "   ", "/tmp/known_hosts"}

buildSSHArgs(c, remoteCommand) ==
    LET secs == c.ConnectTimeoutMs \div 1000
        connectSeconds == IF secs <= 0 THEN 5 ELSE secs
        args == << "-o", "BatchMode=yes",
                   "-o", "IdentitiesOnly=yes",
                   "-o", "HostKeyAlgorithms=" \o hostKeyAlgorithm,
                   "-o", "ConnectTimeout=" \o Itoa(connectSeconds),
                   "-p", Itoa(c.Port),
                   "-i", c.PrivateKeyPath >>
        kmode == normalizeKnownHostsMode(c.KnownHostsMode)
        strict == IF kmode = "accept-new" THEN "accept-new" ELSE "yes"
        withTrust ==
            IF c.KnownHostsFile # ""
            THEN args \o << "-o", "StrictHostKeyChecking=" \o strict,
                            "-o", "UserKnownHostsFile=" \o c.KnownHostsFile >>
            ELSE args \o << "-o", "StrictHostKeyChecking=" \o strict >>
        destination == c.User \o "@" \o c.Host
    IN withTrust \o << destination, remoteCommand >>

\* RunCommand and RunScript build the arguments of the ssh process.
BuildArgs ==
    /\ apc = "call"
    /\ sshArgs' = buildSSHArgs(acfg, "true")
    /\ apc' = "built"
    /\ UNCHANGED acfg

ArgsIdle ==
    /\ acfg = [Host |-> "", Port |-> 0, User |-> "", PrivateKeyPath |-> "",
               KnownHostsFile |-> "", KnownHostsMode |-> "", ConnectTimeoutMs |-> 0]
    /\ sshArgs = <<>>
    /\ apc = "idle"

(***************************************************************************)
(* internal/config and internal/cli: the bootstrap and the                 *)
(* provision-and-bootstrap commands, one invocation                        *)
(***************************************************************************)

\* vm.known_hosts_mode as the file may spell it ("strict" is also what
\* defaultConfig() leaves when the key is absent).
ConfigModes == {"strict", "", " STRICT ", "prompt", "accept_new", "auto-refresh",
                "Auto_Refresh", "weird"}

\* vm.ssh_host_fingerprint as configured.
ConfigFingerprints == {"", "  ", "SHA256:abc", "MD5:abc"}

\* vm.known_hosts_file as configured (no leading "~", so expandHome returns
\* the path as it is).
ConfigFiles == {"", "   ", "/tmp/known_hosts"}

\* internal/config's normalizeKnownHostsMode: "" for an unknown mode.
configNormalizeKnownHostsMode(raw) ==
    LET m == ToLower(TrimSpace(raw))
    IN CASE m \in {"", "strict"}                   -> "strict"
         [] m = "prompt"                           -> "prompt"
         [] m \in {"accept-new", "accept_new"}     -> "accept-new"
         [] m \in {"auto-refresh", "auto_refresh"} -> "auto-refresh"
         [] OTHER                                  -> ""

\* The characters [A-Za-z0-9+/] of sshFingerprintRE.
FingerprintChars ==
    {"A", "B", "C", "D", "E", "F", "G", "H", "I", "J", "K", "L", "M", "N", "O", "P", "Q",
     "R", "S", "T", "U", "V", "W", "X", "Y", "Z",
     "a", "b", "c", "d", "e", "f", "g", "h", "i", "j", "k", "l", "m", "n", "o", "p", "q",
     "r", "s", "t", "u", "v", "w", "x", "y", "z",
     "0", "1", "2", "3", "4", "5", "6", "7", "8", "9", "+", "/"}

\* sshFingerprintRE.MatchString: ^SHA256:[A-Za-z0-9+/]+$
MatchesFingerprintRE(fp) ==
    /\ Len(fp) > Len("SHA256:")
    /\ SubSeq(fp, 1, Len("SHA256:")) = "SHA256:"
    /\ \A i \in (Len("SHA256:") + 1)..Len(fp) : SubSeq(fp, i, i) \in FingerprintChars

\* Config.Validate: the error text, or Nil. VMFieldsValid stands for the
\* checks of vm.port, vm.user and vm.ssh_private_key, RestValid for those of
\* the docker, talos, cluster, timeouts and hardening sections.
ValidateMutNoStoreCheck(c) ==
    IF TrimSpace(c.Host) = "" THEN "vm.host is required"
    ELSE IF ~c.VMFieldsValid THEN "vm.port, vm.user or vm.ssh_private_key is invalid"
    ELSE IF configNormalizeKnownHostsMode(c.KnownHostsMode) = ""
    THEN "vm.known_hosts_mode must be one of: strict, prompt, accept-new, auto-refresh"
    ELSE IF TrimSpace(c.SSHHostFingerprint) # ""
            /\ ~MatchesFingerprintRE(TrimSpace(c.SSHHostFingerprint))
    THEN "vm.ssh_host_fingerprint must be in SHA256:... format"
    ELSE IF TrimSpace(c.SSHHostFingerprint) # "" /\ TrimSpace(c.KnownHostsFile) = ""
    THEN "vm.known_hosts_file is required when vm.ssh_host_fingerprint is set"
    ELSE IF ~c.RestValid THEN "another section is invalid"
    ELSE Nil

Validate(c) ==
    IF TrimSpace(c.Host) = "" THEN "vm.host is required"
    ELSE IF ~c.VMFieldsValid THEN "vm.port, vm.user or vm.ssh_private_key is invalid"
    ELSE IF configNormalizeKnownHostsMode(c.KnownHostsMode) = ""
    THEN "vm.known_hosts_mode must be one of: strict, prompt, accept-new, auto-refresh"
    ELSE IF TrimSpace(c.SSHHostFingerprint) # ""
            /\ ~MatchesFingerprintRE(TrimSpace(c.SSHHostFingerprint))
    THEN "vm.ssh_host_fingerprint must be in SHA256:... format"
    ELSE IF TrimSpace(c.SSHHostFingerprint) # "" /\ TrimSpace(c.KnownHostsFile) = ""
    THEN "vm.known_hosts_file is required when vm.ssh_host_fingerprint is set"
    ELSE IF configNormalizeKnownHostsMode(c.KnownHostsMode) \in {"prompt", "auto-refresh"}
            /\ TrimSpace(c.KnownHostsFile) = ""
    THEN "vm.known_hosts_file is required when vm.known_hosts_mode is "
             \o configNormalizeKnownHostsMode(c.KnownHostsMode)
    ELSE IF ~c.RestValid THEN "another section is invalid"
    ELSE Nil

\* The zero config.Config.
ZeroConfig ==
    [Host |-> "", VMFieldsValid |-> FALSE, RestValid |-> FALSE, KnownHostsMode |-> "",
     SSHHostFingerprint |-> "", KnownHostsFile |-> ""]

RawConfigs ==
    [Host : {"", "10.0.0.1"}, VMFieldsValid : BOOLEAN, RestValid : BOOLEAN,
     KnownHostsMode : ConfigModes, SSHHostFingerprint : ConfigFingerprints,
     KnownHostsFile : ConfigFiles]

\* The zero BootstrapResult. Valid stands for what the contract's own
\* Validate (vmware-vm-bootstrap) says; VMFieldsValid for whether its user,
\* key and port pass Config.Validate's checks of these fields.
ZeroBootstrapResult ==
    [Valid |-> FALSE, IPAddress |-> "", SSHHostFingerprint |-> "", VMFieldsValid |-> FALSE]

BootstrapResults ==
    [Valid : BOOLEAN, IPAddress : {"", "10.0.0.2"},
     SSHHostFingerprint : {"", "SHA256:old", "bad fp"}, VMFieldsValid : BOOLEAN]

\* strings.EqualFold on ASCII text.
EqualFold(a, b) == ToLower(a) = ToLower(b)

\* The mode the command leaves in stage2Cfg after a refresh.
ForcedModeMutKeeps(m) == m

ForcedMode(m) == IF ~EqualFold(TrimSpace(m), "strict") THEN "strict" ELSE m

\* MergeBootstrapIntoStage2 after the contract's own Validate: the merged
\* configuration, before it is validated.
Merged(base, bootstrap) ==
    [base EXCEPT !.Host = bootstrap.IPAddress,
                 !.VMFieldsValid = bootstrap.VMFieldsValid,
                 !.SSHHostFingerprint =
                     IF TrimSpace(bootstrap.SSHHostFingerprint) # ""
                     THEN bootstrap.SSHHostFingerprint ELSE @]

\* maybeSetKnownHostsPrompt
PromptFor(c, allowPrompt) ==
    IF allowPrompt /\ ToLower(TrimSpace(c.KnownHostsMode)) = "prompt" THEN "set" ELSE "nil"

CmdReturn(err) ==
    /\ cpc' = "returned"
    /\ cret' = err

\* config.Load, then maybeSetKnownHostsPrompt.
CmdLoad ==
    /\ cpc = "load"
    /\ LET err == Validate(rawCfg)
       IN IF err # Nil
          THEN /\ CmdReturn(err)
               /\ UNCHANGED <<stage2Cfg, accepted, promptFn>>
          ELSE /\ stage2Cfg' = rawCfg
               /\ accepted' = accepted \cup {rawCfg}
               /\ promptFn' = PromptFor(rawCfg, human)
               /\ cpc' = IF command = "bootstrap" THEN "run" ELSE "acquire"
               /\ UNCHANGED cret
    /\ UNCHANGED <<command, rawCfg, pathsGiven, human, bootstrapFromRun, bootstrapResult,
                   runCfg, cevents>>

\* The bootstrap command: bootstrap.Run on the loaded configuration.
CmdBootstrapRun ==
    /\ cpc = "run"
    /\ runCfg' = stage2Cfg
    /\ cevents' = Append(cevents, "run")
    /\ \E err \in {Nil, "bootstrap failed"} : CmdReturn(err)
    /\ UNCHANGED <<command, rawCfg, pathsGiven, human, promptFn, stage2Cfg,
                   bootstrapFromRun, bootstrapResult, accepted>>

\* provision-and-bootstrap: runVMBootstrapAndCaptureResult when no path was
\* given, then resolveBootstrapResult.
CmdAcquire ==
    /\ cpc = "acquire"
    /\ \E vm \in {"cancelled", "failed", "ok"}, loaded \in BOOLEAN, r \in BootstrapResults :
          IF ~pathsGiven /\ vm = "cancelled"
          THEN CmdReturn(Nil) /\ UNCHANGED <<bootstrapFromRun, bootstrapResult>>
          ELSE IF ~pathsGiven /\ vm = "failed"
          THEN CmdReturn("vmbootstrap failed") /\ UNCHANGED <<bootstrapFromRun, bootstrapResult>>
          ELSE IF ~loaded
          THEN /\ CmdReturn("load bootstrap result failed")
               /\ bootstrapFromRun' = ~pathsGiven
               /\ UNCHANGED bootstrapResult
          ELSE /\ bootstrapFromRun' = ~pathsGiven
               /\ bootstrapResult' = r
               /\ cpc' = "identity"
               /\ UNCHANGED cret
    /\ UNCHANGED <<command, rawCfg, pathsGiven, human, promptFn, stage2Cfg, runCfg,
                   accepted, cevents>>

\* What RefreshBootstrapFingerprint may do to the contract it is given
\* (the path is not blank here): nothing when the contract has no address;
\* otherwise fail, leave it as it is, or replace its fingerprint by the
\* scanned one.
RefreshOutcomes(b) ==
    IF TrimSpace(b.IPAddress) = "" THEN {"unchanged"}
    ELSE {"error", "unchanged", "SHA256:new"}

\* provision-and-bootstrap: the ssh-identity stage.
CmdIdentity ==
    /\ cpc = "identity"
    /\ IF bootstrapFromRun
       THEN \E o \in RefreshOutcomes(bootstrapResult) :
              IF o = "error"
              THEN /\ cevents' = Append(cevents, "refresh-err")
                   /\ CmdReturn("refresh bootstrap fingerprint failed")
                   /\ UNCHANGED <<bootstrapResult, stage2Cfg>>
              ELSE /\ cevents' = Append(cevents, "refresh-ok")
                   /\ bootstrapResult' =
                          IF o = "unchanged" THEN bootstrapResult
                          ELSE [bootstrapResult EXCEPT !.SSHHostFingerprint = o]
                   /\ stage2Cfg' = [stage2Cfg EXCEPT
                                       !.KnownHostsMode = ForcedMode(stage2Cfg.KnownHostsMode)]
                   /\ cpc' = "provision"
                   /\ UNCHANGED cret
       ELSE /\ cpc' = "provision"
            /\ UNCHANGED <<cevents, bootstrapResult, stage2Cfg, cret>>
    /\ UNCHANGED <<command, rawCfg, pathsGiven, human, promptFn, bootstrapFromRun, runCfg,
                   accepted>>

\* workflow.ProvisionAndBootstrap: merge, validate, bootstrap.Run.
CmdProvisionAndBootstrap ==
    /\ cpc = "provision"
    /\ LET merged == Merged(stage2Cfg, bootstrapResult)
           err == Validate(merged)
       IN IF ~bootstrapResult.Valid
          THEN /\ CmdReturn("bootstrap result invalid")
               /\ UNCHANGED <<runCfg, accepted, cevents>>
          ELSE IF err # Nil
          THEN /\ CmdReturn("merged talos config invalid: " \o err)
               /\ UNCHANGED <<runCfg, accepted, cevents>>
          ELSE /\ accepted' = accepted \cup {merged}
               /\ runCfg' = merged
               /\ cevents' = Append(cevents, "run")
               /\ \E e \in {Nil, "bootstrap failed"} : CmdReturn(e)
    /\ UNCHANGED <<command, rawCfg, pathsGiven, human, promptFn, stage2Cfg,
                   bootstrapFromRun, bootstrapResult>>

ProvisionIdle ==
    /\ command = "none"
    /\ rawCfg = ZeroConfig
    /\ pathsGiven = FALSE
    /\ human = FALSE
    /\ promptFn = "nil"
    /\ stage2Cfg = ZeroConfig
    /\ bootstrapFromRun = FALSE
    /\ bootstrapResult = ZeroBootstrapResult
    /\ runCfg = ZeroConfig
    /\ accepted = {}
    /\ cevents = <<>>
    /\ cpc = "idle"
    /\ cret = Nil

Writers == {1, 2}

WritersIdle ==
    /\ wstore = <<>>
    /\ wstore0 = <<>>
    /\ writers = [w \in Writers |-> [pc |-> "idle", entry |-> NoLine]]
    /\ wlog = <<>>

\* known_hosts before the call: empty, or an entry for another host and a
\* stale entry for this one.
InitialStores == {
    <<>>,
    <<Line(OtherHost, "kA", 1), Line(Host, "kB", 2)>> }

RunIdle ==
    /\ opts = [DryRun |-> FALSE, HumanProgress |-> FALSE]
    /\ stepFn = [k \in 1..total |-> Nil]
    /\ rpc = "idle"
    /\ idx = 0
    /\ res = ZeroResult
    /\ ret = [res |-> ZeroResult, err |-> NoErr]
    /\ invoked = <<>>
    /\ hb = [k \in 1..total |-> NoHeartbeat]
    /\ ticks = 0
    /\ hbTrace = <<>>

InitExec ==
    /\ cfg \in [KnownHostsFile : {"", "/tmp/known_hosts"},
                KnownHostsMode : RawModes,
                ExpectedHostKeySHA256 : ExpectedValues,
                Prompt : {"nil", "set"}]
    /\ knownHosts \in InitialStores
    /\ kh0 = knownHosts
    /\ ens = NotReturned
    /\ xpc = "ensure"
    /\ loc = ZeroLoc("script")  \* RunScript; RunCommand differs in the error prefix only
    /\ xret = ZeroRet
    /\ trace = <<>>
    /\ RunIdle
    /\ RefreshIdle
    /\ WaitIdle
    /\ SummaryIdle
    /\ PipelineIdle
    /\ ArgsIdle
    /\ ProvisionIdle
    /\ WritersIdle

NextExec ==
    \/ EnsureEnter /\ UNCHANGED exceptExec
    \/ FirstScan /\ UNCHANGED exceptExec
    \/ PromptMismatch /\ UNCHANGED exceptExec
    \/ StabilizeDelay /\ UNCHANGED exceptExec
    \/ SecondScan /\ UNCHANGED exceptExec
    \/ WriteRemove /\ UNCHANGED exceptExec
    \/ WriteAppend /\ UNCHANGED exceptExec
    \/ SSHRun /\ UNCHANGED exceptExec
    \/ PromptRetry /\ UNCHANGED exceptExec
    \/ RefreshRemove /\ UNCHANGED exceptExec
    \/ RefreshScan /\ UNCHANGED exceptExec
    \/ Retry /\ UNCHANGED exceptExec

SpecExec == InitExec /\ [][NextExec]_vars

ExecIdle ==
    /\ cfg = [KnownHostsFile |-> "", KnownHostsMode |-> "",
              ExpectedHostKeySHA256 |-> "", Prompt |-> "nil"]
    /\ knownHosts = <<>>
    /\ kh0 = <<>>
    /\ ens = NotReturned
    /\ xpc = "idle"
    /\ loc = ZeroLoc("command")
    /\ xret = ZeroRet
    /\ trace = <<>>

InitRun ==
    /\ opts \in [DryRun : BOOLEAN, HumanProgress : BOOLEAN]
    /\ stepFn \in [1..total -> StepErrs \cup {Nil}]
    /\ rpc = "enter"
    /\ idx = 0
    /\ res = ZeroResult
    /\ ret = [res |-> ZeroResult, err |-> NoErr]
    /\ invoked = <<>>
    /\ hb = [k \in 1..total |-> NoHeartbeat]
    /\ ticks = 0
    /\ hbTrace = <<>>
    /\ ExecIdle
    /\ RefreshIdle
    /\ WaitIdle
    /\ SummaryIdle
    /\ PipelineIdle
    /\ ArgsIdle
    /\ ProvisionIdle
    /\ WritersIdle

NextRun ==
    \/ RunEnter /\ UNCHANGED exceptRun
    \/ StepBegin /\ UNCHANGED exceptRun
    \/ StepEnd /\ UNCHANGED exceptRun
    \/ RunReturnSuccess /\ UNCHANGED exceptRun
    \/ TickerFires /\ UNCHANGED exceptRun
    \/ HeartbeatPrint /\ UNCHANGED exceptRun
    \/ HeartbeatReturn /\ UNCHANGED exceptRun

SpecRun == InitRun /\ [][NextRun]_vars

InitRefresh ==
    /\ path \in {"", "   ", "x.yaml"}
    /\ result \in Contracts
    /\ file \in {<<>>, <<StaleContract>>}
    /\ start = [result |-> result, file |-> file]
    /\ ctxDone = FALSE
    /\ prev = ""
    /\ consecutive = 0
    /\ lastErr = NoErr
    /\ fpc = "enter"
    /\ probes = <<>>
    /\ stab = NotStabilized
    /\ fret = [changed |-> FALSE, err |-> NoErr]
    /\ overslept = FALSE
    /\ RunIdle
    /\ ExecIdle
    /\ WaitIdle
    /\ SummaryIdle
    /\ PipelineIdle
    /\ ArgsIdle
    /\ ProvisionIdle
    /\ WritersIdle

NextRefresh ==
    \/ RefreshEnter /\ UNCHANGED exceptRefresh
    \/ Deadline /\ UNCHANGED exceptRefresh
    \/ LoopHead /\ UNCHANGED exceptRefresh
    \/ Probe /\ UNCHANGED exceptRefresh
    \/ ProbeSleep /\ UNCHANGED exceptRefresh
    \/ RefreshFinish /\ UNCHANGED exceptRefresh

SpecRefresh == InitRefresh /\ [][NextRefresh]_vars

\* Every scan and every sleep ends, the loop takes its next step, and the
\* deadline of context.WithTimeout passes.
SpecRefreshLive == SpecRefresh /\ WF_vars(NextRefresh)

InitWait ==
    /\ attempts \in 0..MaxAttempts
    /\ wi = 0
    /\ stats = [Attempts |-> 0]
    /\ dialErr = NoErr
    /\ wctx \in BOOLEAN
    /\ wpc = "loop"
    /\ wret = [stats |-> [Attempts |-> 0], err |-> NoErr]
    /\ dials = <<>>
    /\ RunIdle
    /\ ExecIdle
    /\ RefreshIdle
    /\ SummaryIdle
    /\ PipelineIdle
    /\ ArgsIdle
    /\ ProvisionIdle
    /\ WritersIdle

NextWait ==
    \/ WaitLoop /\ UNCHANGED exceptWait
    \/ WaitCancel /\ UNCHANGED exceptWait
    \/ Dial /\ UNCHANGED exceptWait
    \/ WaitSelect /\ UNCHANGED exceptWait

SpecWait == InitWait /\ [][NextWait]_vars

InitSummary ==
    /\ stderrIn \in StderrInputs
    /\ summary = ""
    /\ fmtErr = NoErr
    /\ spc = "call"
    /\ RunIdle
    /\ ExecIdle
    /\ RefreshIdle
    /\ WaitIdle
    /\ PipelineIdle
    /\ ArgsIdle
    /\ ProvisionIdle
    /\ WritersIdle

NextSummary ==
    \/ SummarizeCall /\ UNCHANGED exceptSummary
    \/ FormatCall /\ UNCHANGED exceptSummary

SpecSummary == InitSummary /\ [][NextSummary]_vars

InitPipeline ==
    /\ hcfg \in PipelineConfigs
    /\ host \in InitialHosts
    /\ host0 = host
    /\ remoteOps = <<>>
    /\ pass = 1
    /\ pstep = 1
    /\ presults = <<>>
    /\ RunIdle
    /\ ExecIdle
    /\ RefreshIdle
    /\ WaitIdle
    /\ SummaryIdle
    /\ ArgsIdle
    /\ ProvisionIdle
    /\ WritersIdle

NextPipeline ==
    \/ PConnectivity /\ UNCHANGED exceptPipeline
    \/ POSHardening /\ UNCHANGED exceptPipeline
    \/ PDockerInstall /\ UNCHANGED exceptPipeline
    \/ PTalosctlInstall /\ UNCHANGED exceptPipeline
    \/ PClusterCreate /\ UNCHANGED exceptPipeline
    \/ SecondRun /\ UNCHANGED exceptPipeline

SpecPipeline == InitPipeline /\ [][NextPipeline]_vars

InitArgs ==
    /\ acfg \in [Host : {"10.0.0.1"}, Port : {22, 2222}, User : {"ubuntu"},
                 PrivateKeyPath : {"/tmp/id_ed25519"},
                 KnownHostsFile : ArgFiles, KnownHostsMode : ArgModes,
                 ConnectTimeoutMs : {0, 500, 10000}]
    /\ sshArgs = <<>>
    /\ apc = "call"
    /\ RunIdle
    /\ ExecIdle
    /\ RefreshIdle
    /\ WaitIdle
    /\ SummaryIdle
    /\ PipelineIdle
    /\ ProvisionIdle
    /\ WritersIdle

NextArgs ==
    \/ BuildArgs /\ UNCHANGED exceptArgs

SpecArgs == InitArgs /\ [][NextArgs]_vars

InitProvision ==
    /\ command \in {"bootstrap", "provision-and-bootstrap"}
    /\ rawCfg \in RawConfigs
    /\ pathsGiven \in BOOLEAN
    /\ human \in BOOLEAN
    /\ promptFn = "nil"
    /\ stage2Cfg = ZeroConfig
    /\ bootstrapFromRun = FALSE
    /\ bootstrapResult = ZeroBootstrapResult
    /\ runCfg = ZeroConfig
    /\ accepted = {}
    /\ cevents = <<>>
    /\ cpc = "load"
    /\ cret = Nil
    /\ RunIdle
    /\ ExecIdle
    /\ RefreshIdle
    /\ WaitIdle
    /\ SummaryIdle
    /\ PipelineIdle
    /\ ArgsIdle
    /\ WritersIdle

NextProvision ==
    \/ CmdLoad /\ UNCHANGED exceptProvision
    \/ CmdBootstrapRun /\ UNCHANGED exceptProvision
    \/ CmdAcquire /\ UNCHANGED exceptProvision
    \/ CmdIdentity /\ UNCHANGED exceptProvision
    \/ CmdProvisionAndBootstrap /\ UNCHANGED exceptProvision

SpecProvision == InitProvision /\ [][NextProvision]_vars

(***************************************************************************)
(* Two invocations against one host, each in writeKnownHostsEntry on the   *)
(* same known_hosts file. Nothing in the source takes a lock on the file,  *)
(* so the steps of the two interleave freely. ssh-keygen -R is taken as    *)
(* one step on the file, and so is the O_APPEND write of one entry.        *)
(***************************************************************************)

\* The entry an invocation writes: a line of its own scan of Host.
WriterEntries(w) == {Line(Host, k, 2 + w) : k \in Keys}

WLog(w, op, io) == [w |-> w, op |-> op, io |-> io]

\* writeKnownHostsEntry, first half, in invocation w: MkdirAll, then the
\* best-effort ssh-keygen -R whose result is ignored.
WriterRemove(w) ==
    /\ writers[w].pc = "write_remove"
    /\ \E io \in RemoveIO :
        IF io = "mkdir fails"
        THEN /\ writers' = [writers EXCEPT ![w].pc = "failed"]
             /\ UNCHANGED <<wstore, wlog>>
        ELSE /\ wstore' = IF io = "removed"
                          THEN RemoveHost(wstore, knownHostsTarget)
                          ELSE wstore
             /\ wlog' = Append(wlog, WLog(w, "remove", io))
             /\ writers' = [writers EXCEPT ![w].pc = "write_append"]
    /\ UNCHANGED wstore0

\* (a trust write that replaces the host's lines in the same step that adds
\* the new one)
WriterAppendMutReplaces(w) ==
    /\ writers[w].pc = "write_append"
    /\ \E io \in AppendIO :
        IF io = "appended"
        THEN /\ wstore' = Append(RemoveHost(wstore, knownHostsTarget), writers[w].entry)
             /\ wlog' = Append(wlog, WLog(w, "append", io))
             /\ writers' = [writers EXCEPT ![w].pc = "done"]
        ELSE /\ writers' = [writers EXCEPT ![w].pc = "failed"]
             /\ UNCHANGED <<wstore, wlog>>
    /\ UNCHANGED wstore0

\* writeKnownHostsEntry, second half, in invocation w: OpenFile(O_APPEND) and
\* WriteString(entry). A write that fails is taken to have written nothing.
WriterAppend(w) ==
    /\ writers[w].pc = "write_append"
    /\ \E io \in AppendIO :
        IF io = "appended"
        THEN /\ wstore' = Append(wstore, writers[w].entry)
             /\ wlog' = Append(wlog, WLog(w, "append", io))
             /\ writers' = [writers EXCEPT ![w].pc = "done"]
        ELSE /\ writers' = [writers EXCEPT ![w].pc = "failed"]
             /\ UNCHANGED <<wstore, wlog>>
    /\ UNCHANGED wstore0

InitWriters ==
    /\ wstore \in InitialStores
    /\ wstore0 = wstore
    /\ writers \in {[w \in Writers |-> [pc |-> "write_remove", entry |-> e[w]]] :
                      e \in {f \in [Writers -> UNION {WriterEntries(w) : w \in Writers}] :
                                \A w \in Writers : f[w] \in WriterEntries(w)}}
    /\ wlog = <<>>
    /\ RunIdle
    /\ ExecIdle
    /\ RefreshIdle
    /\ WaitIdle
    /\ SummaryIdle
    /\ PipelineIdle
    /\ ArgsIdle
    /\ ProvisionIdle

NextWriters ==
    \/ \E w \in Writers : WriterRemove(w) /\ UNCHANGED exceptWriters
    \/ \E w \in Writers : WriterAppend(w) /\ UNCHANGED exceptWriters

SpecWriters == InitWriters /\ [][NextWriters]_vars

(***************************************************************************)
(* Properties of bootstrap.Run                                             *)
(***************************************************************************)

\* The pipeline's step names, in the order the specification fixes.
FixedOrder == <<"ssh_connectivity", "os_hardening", "docker_install",
                "talosctl_install", "cluster_create">>

\* The first step whose function returns an error; 0 when none does.
FirstFailing ==
    IF \E k \in 1..5 : stepFn[k] # Nil
    THEN CHOOSE k \in 1..5 : stepFn[k] # Nil /\ \A j \in 1..(k - 1) : stepFn[j] = Nil
    ELSE 0

\* C1 (fail-fast): in a non-dry-run Run, if step k is the first whose action
\* returns an error, no action after step k is ever invoked, and Run returns
\* a non-nil error with the partial result: exactly k step entries (k-1
\* successes and the failure), status "failed", an error text that contains
\* the name of step k.
C1_FailFast ==
    (~opts.DryRun /\ FirstFailing # 0) =>
        LET k == FirstFailing
        IN /\ Len(invoked) <= k
           /\ \A n \in 1..Len(invoked) : invoked[n] = FixedOrder[n]
           /\ rpc = "returned" =>
                /\ invoked = SubSeq(FixedOrder, 1, k)
                /\ Len(ret.res.Steps) = k
                /\ \A n \in 1..(k - 1) : ret.res.Steps[n].Status = "success"
                /\ ret.res.Steps[k].Status = "failed"
                /\ ret.res.Steps[k].Name = FixedOrder[k]
                /\ ret.res.Status = "failed"
                /\ Contains(ret.res.Error, FixedOrder[k])
                /\ ret.err # NoErr
                /\ ret.res = res

\* C1 witness: a run that failed at its third step and has returned.
C1_Witness ==
    /\ ~opts.DryRun
    /\ FirstFailing = 3
    /\ stepFn[4] = Nil
    /\ rpc = "returned"
    /\ Len(ret.res.Steps) = 3

\* C2 (dry-run purity): with DryRun set, no step action is ever invoked, and
\* Run returns a nil error and a result of status "planned" holding exactly
\* one "planned" entry per step, in the fixed order.
C2_DryRunPurity ==
    opts.DryRun =>
        /\ invoked = <<>>
        /\ rpc = "returned" =>
             /\ ret.err = NoErr
             /\ ret.res.Status = "planned"
             /\ Len(ret.res.Steps) = 5
             /\ \A n \in 1..5 : /\ ret.res.Steps[n].Name = FixedOrder[n]
                                /\ ret.res.Steps[n].Status = "planned"

\* C2 witness: a dry run that has returned although a step function would fail.
C2_Witness ==
    /\ opts.DryRun
    /\ rpc = "returned"
    /\ stepFn[1] # Nil
    /\ Len(ret.res.Steps) = 5

(***************************************************************************)
(* Properties of runSSHCommand / ensureExpectedHostKey                     *)
(***************************************************************************)

\* ensureExpectedHostKey's first scan returned a key set.
FirstScanned ==
    /\ expected # ""
    /\ Len(trace) >= 1
    /\ trace[1].op = "scan"
    /\ trace[1].ok

\* The expected fingerprint is (is not) the fingerprint of a scanned key.
Matched    == FirstScanned /\ expected \in trace[1].fps
Mismatched == FirstScanned /\ expected \notin trace[1].fps

EnsureFailed    == ens.returned /\ ens.err # NoErr
EnsureSucceeded == ens.returned /\ ens.err = NoErr

\* The trust writes of ensureExpectedHostKey, as positions in the history.
EnsureAppends ==
    {k \in 1..Len(trace) : trace[k].op = "append" /\ trace[k].arg = "ensure"}

\* The errors of a trust-store write that the file system refused.
IsWriteErr(err) ==
    err # NoErr /\ err[1] \in {"create known_hosts dir", "open fails", "write fails"}

IsMismatchErr(err) == err # NoErr /\ err[1] = "ssh host fingerprint mismatch"

C4_WritesExpectedEntry ==
    Matched =>
        \A k \in EnsureAppends : FingerprintSHA256(trace[k].lines[1].key) = expected

\* C5: in strict mode a mismatch ends the call at once with a mismatch error
\* naming the expected and the observed fingerprint: the only interaction is
\* the one scan (no second scan, no prompt, no ssh run) and known_hosts is as
\* it was.
C5_StrictMismatchFails ==
    (mode = "strict" /\ Mismatched) =>
        /\ xpc = "done"
        /\ EnsureFailed
        /\ xret.err = ens.err
        /\ IsMismatchErr(ens.err)
        /\ Contains(ens.err, expected)
        /\ Contains(ens.err, trace[1].arg)
        /\ Len(trace) = 1
        /\ knownHosts = kh0

\* C5 witness: a strict-mode mismatch against a two-key scan, with a
\* known_hosts that had entries.
C5_Witness ==
    /\ mode = "strict"
    /\ Mismatched
    /\ Cardinality(trace[1].fps) = 2
    /\ kh0 # <<>>
    /\ xpc = "done"

\* The stabilization re-scan of auto-refresh mode saw another fingerprint.
UnstableAutoRefresh ==
    /\ mode = "auto-refresh"
    /\ Mismatched
    /\ Len(trace) >= 3
    /\ trace[3].op = "scan"
    /\ trace[3].ok
    /\ trace[3].arg # trace[1].arg

\* C6 (auto-refresh rejects instability): when the re-scan's fingerprint
\* differs from the first scan's, the call fails with an error containing
\* "changed during verification" and both fingerprints, nothing follows the
\* second scan (no third scan) and known_hosts is as it was.
C6_RejectsInstability ==
    UnstableAutoRefresh =>
        /\ xpc = "done"
        /\ EnsureFailed
        /\ xret.err = ens.err
        /\ Contains(ens.err, "changed during verification")
        /\ Contains(ens.err, trace[1].arg)
        /\ Contains(ens.err, trace[3].arg)
        /\ Len(trace) = 3
        /\ knownHosts = kh0

\* C6 witness: an unstable key, against a known_hosts that had entries.
C6_Witness ==
    /\ UnstableAutoRefresh
    /\ kh0 # <<>>
    /\ xpc = "done"

\* C7 (stabilization gates trust): after a mismatch, known_hosts is touched
\* only after a second scan, taken after the delay ran out, returned a
\* non-empty fingerprint equal to the first scan's; the entry appended is the
\* second scan's entry.
C7_StabilizationGatesTrust ==
    Mismatched =>
        /\ \A k \in EnsureAppends :
             \E j \in 3..(k - 1) :
                /\ trace[j].op = "scan" /\ trace[j].ok
                /\ trace[j].arg # "" /\ trace[j].arg = trace[1].arg
                /\ trace[j - 1].op = "sleep" /\ trace[j - 1].ok
                /\ trace[k].lines = trace[j].lines
        /\ (\A j \in 2..Len(trace) : ~(trace[j].op = "scan" /\ trace[j].ok))
              => knownHosts = kh0

\* C7 witness: prompt mode trusted a re-scanned entry that differs, as a
\* line, from the first scan's.
C7_Witness ==
    /\ Mismatched
    /\ mode = "prompt"
    /\ \E k \in EnsureAppends : trace[k].lines # trace[1].lines

\* C8: in prompt mode on a mismatch, anything beyond the first scan and the
\* prompt happens only if a callback is configured and answered yes without
\* error; with no callback or a negative answer the call fails with the
\* mismatch error, a callback error is propagated, and in all three cases
\* known_hosts is as it was.
C8_PromptGate ==
    (mode = "prompt" /\ Mismatched) =>
        /\ cfg.Prompt = "nil" =>
             /\ xpc = "done" /\ EnsureFailed /\ xret.err = ens.err
             /\ IsMismatchErr(ens.err)
             /\ Len(trace) = 1
             /\ knownHosts = kh0
        /\ Len(trace) >= 2 =>
             /\ cfg.Prompt # "nil"
             /\ trace[2].op = "prompt"
             /\ trace[2].arg = "no" =>
                  /\ xpc = "done" /\ EnsureFailed /\ xret.err = ens.err
                  /\ IsMismatchErr(ens.err)
                  /\ Len(trace) = 2
                  /\ knownHosts = kh0
             /\ trace[2].arg = "error" =>
                  /\ xpc = "done" /\ EnsureFailed /\ xret.err = ens.err
                  /\ Contains(ens.err, "prompt error")
                  /\ Len(trace) = 2
                  /\ knownHosts = kh0
             /\ Len(trace) >= 3 => trace[2].arg = "yes"
        /\ knownHosts # kh0 => (Len(trace) >= 3 /\ trace[2].arg = "yes")

\* C8 witness: the callback approved and the entry was trusted.
C8_Witness ==
    /\ mode = "prompt"
    /\ Mismatched
    /\ Len(trace) >= 2
    /\ trace[2].arg = "yes"
    /\ EnsureAppends # {}

\* C9 (executor gate): when ensureExpectedHostKey fails, the call is over, ssh
\* was never run, and what is returned is that error with empty stdout and
\* stderr.
C9_ExecutorGate ==
    EnsureFailed =>
        /\ xpc = "done"
        /\ xret.stdout = ""
        /\ xret.stderr = <<>>
        /\ xret.err = ens.err
        /\ \A k \in 1..Len(trace) : trace[k].op # "ssh"

\* C9 witness: a script run stopped by an unstable host key.
C9_Witness ==
    /\ EnsureFailed
    /\ loc.kind = "script"
    /\ Contains(ens.err, "changed during verification")

\* The ssh runs of the call, as positions in the history.
SSHRuns == {k \in 1..Len(trace) : trace[k].op = "ssh"}

FirstSSH == CHOOSE k \in SSHRuns : \A j \in SSHRuns : k <= j

\* stderr carries the host-identity-changed signature.
HasChangedSignature(stderr) ==
    /\ \E k \in 1..Len(stderr) : "host key verification failed" \in PhrasesIn(stderr[k])
    /\ \E k \in 1..Len(stderr) :
          PhrasesIn(stderr[k]) \cap {"host identification has changed", "offending"} # {}

\* The conditions under which the command is run a second time.
RetryConditions ==
    LET f == FirstSSH
    IN /\ ~trace[f].ok
       /\ HasChangedSignature(trace[f].lines)
       /\ cfg.KnownHostsFile # ""
       /\ mode \in {"prompt", "auto-refresh"}
       /\ mode = "prompt" =>
            /\ cfg.Prompt # "nil"
            /\ Len(trace) > f
            /\ trace[f + 1].op = "prompt"
            /\ trace[f + 1].arg = "yes"
       /\ \E k \in (f + 1)..Len(trace) :
            trace[k].op = "append" /\ trace[k].arg = "refresh" /\ trace[k].ok

\* C10 (retry once): ssh runs at most twice in a call; it runs a second time
\* if and only if the first run failed with the host-identity-changed
\* signature, a known_hosts file is configured, the mode is prompt or
\* auto-refresh, in prompt mode a configured callback approved, and the
\* known_hosts refresh succeeded; the second run ends the call and its
\* outcome, success or failure, is what the call returns.
C10_RetryOnce ==
    /\ Cardinality(SSHRuns) <= 2
    /\ (xpc = "done" /\ SSHRuns # {}) => (Cardinality(SSHRuns) = 2 <=> RetryConditions)
    /\ Cardinality(SSHRuns) = 2 =>
         LET e == trace[Len(trace)]
         IN /\ e.op = "ssh"
            /\ xpc = "done"
            /\ xret.stderr = e.lines
            /\ xret.err = IF e.ok THEN NoErr
                          ELSE formatSSHRunError(Prefix(loc.kind), e.arg, e.lines)
            /\ e.ok => xret.stdout = "ok"

\* C10 witness: prompt mode retried and the retry failed differently from the
\* first run.
C10_Witness ==
    /\ Cardinality(SSHRuns) = 2
    /\ mode = "prompt"
    /\ ~trace[Len(trace)].ok
    /\ trace[Len(trace)].lines # trace[FirstSSH].lines

\* The stabilization delays of the call, as positions in the history.
Sleeps == {k \in 1..Len(trace) : trace[k].op = "sleep"}

\* The interactions that follow the first ssh run.
AfterFirstSSH == SubSeq(trace, FirstSSH + 1, Len(trace))

OpsOf(events) == [k \in 1..Len(events) |-> events[k].op]

\* C11: the in-call recovery after a host-identity-changed failure is exactly
\* a removal of the host's entry, one scan and an append of that scan's
\* output as it came (whatever the expected fingerprint is), followed by
\* exactly one retry of the command; no stabilization delay or second scan
\* belongs to it: the delay occurs only before the command is run, on the
\* mismatch path of ensureExpectedHostKey.
C11_RecoveryShape ==
    /\ \A k \in Sleeps : Mismatched /\ \A j \in SSHRuns : k < j
    /\ SSHRuns # {} =>
         LET a == AfterFirstSSH
             r == IF a # <<>> /\ a[1].op = "prompt" THEN Tail(a) ELSE a
         IN /\ \E n \in 0..4 : OpsOf(r) = SubSeq(<<"remove", "scan", "append", "ssh">>, 1, n)
            /\ Len(r) >= 3 =>
                 /\ r[2].ok
                 /\ r[3].arg = "refresh"
                 /\ r[3].lines = r[2].lines
                 /\ \E pre \in 0..Len(knownHosts) :
                       SubSeq(knownHosts, pre + 1, Len(knownHosts)) = r[3].lines
            /\ (xpc = "done" /\ Len(r) >= 3) => Len(r) = 4

\* C11 witness: a recovery after a matched expected fingerprint appended a
\* scan output holding no key of that fingerprint, and the command was
\* retried.
C11_Witness ==
    /\ Matched
    /\ Cardinality(SSHRuns) = 2
    /\ \E k \in 1..Len(trace) :
         /\ trace[k].op = "append" /\ trace[k].arg = "refresh"
         /\ trace[k].lines # <<>>
         /\ \A n \in 1..Len(trace[k].lines) :
               IsKeyLine(trace[k].lines[n]) =>
                   FingerprintSHA256(trace[k].lines[n].key) # expected

(***************************************************************************)
(* Properties of RefreshBootstrapFingerprint / stabilizeHostFingerprint    *)
(***************************************************************************)

\* A scan that returned a non-empty fingerprint.
IsObservation(r) == r.err = NoErr /\ r.fp # ""

\* The fingerprints of the scans that returned one, in order.
Observed ==
    LET o == SelectSeq(probes, IsObservation)
    IN [k \in 1..Len(o) |-> o[k].fp]

\* stabilizeHostFingerprint returned a fingerprint.
Stabilized == stab.returned /\ stab.err = NoErr

\* Two scans in a row returned the same non-empty fingerprint.
SamePair(k) ==
    /\ IsObservation(probes[k]) /\ IsObservation(probes[k + 1])
    /\ probes[k].fp = probes[k + 1].fp

\* C12 as stated: a fingerprint is returned only when the last two scans both
\* returned it, non-empty, and no two consecutive scans agreed before.
C12_AsStated ==
    Stabilized =>
        LET n == Len(probes)
        IN /\ n >= 2
           /\ SamePair(n - 1)
           /\ probes[n].fp = stab.fp
           /\ \A k \in 1..(n - 2) : ~SamePair(k)

\* C12 (stabilization convergence), amended: stabilizeHostFingerprint
\* returns a fingerprint F only when the two most recent scans that returned
\* a non-empty fingerprint both returned F (failed and blank scans in between
\* are skipped and do not reset the count), and it returns at the first scan
\* where that holds: the scan that completes the pair is the last one made.
\* A single observation is never accepted.
C12_Convergence ==
    LET o == Observed
        n == Len(o)
    IN /\ Stabilized =>
            /\ n >= 2
            /\ stab.fp # ""
            /\ o[n] = stab.fp /\ o[n - 1] = stab.fp
            /\ IsObservation(probes[Len(probes)])
       /\ \A k \in 1..(n - 1) :
            o[k] = o[k + 1] =>
                /\ k + 1 = n
                /\ Stabilized
                /\ IsObservation(probes[Len(probes)])

\* C12 witness: scans A, B, C, C returned C after four scans.
C12_Witness ==
    /\ Stabilized
    /\ Observed = <<"SHA256:A", "SHA256:B", "SHA256:C", "SHA256:C">>
    /\ Len(probes) = 4
    /\ stab.fp = "SHA256:C"

\* Every scan so far returned a fingerprint different from the one before.
EverChanging ==
    /\ \A k \in 1..Len(probes) : IsObservation(probes[k])
    /\ \A k \in 1..(Len(probes) - 1) : probes[k].fp # probes[k + 1].fp

\* C13: while every scan returns a fingerprint different from the previous
\* one, stabilizeHostFingerprint returns no fingerprint; once the deadline has
\* passed the call returns, and what it returns for such a sequence is
\* changed=false and an error that wraps ctx.Err().
C13_EverChangingFails ==
    /\ [](EverChanging => ~Stabilized)
    /\ []((stab.returned /\ EverChanging) =>
            /\ stab.fp = ""
            /\ Contains(stab.err, CtxErr)
            /\ fpc = "returned"
            /\ fret = [changed |-> FALSE, err |-> stab.err])
    /\ (ctxDone ~> (fpc = "returned"))

\* C13 witness: three scans, each different from the one before, and the
\* call ended by its deadline.
C13_Witness ==
    /\ EverChanging
    /\ Len(probes) >= 3
    /\ ctxDone
    /\ fpc = "returned"
    /\ Contains(fret.err, CtxErr)

\* The call has returned after stabilization yielded a fingerprint.
RefreshedWith(same) ==
    /\ Stabilized
    /\ fpc = "returned"
    /\ (stab.fp = start.result.SSHHostFingerprint) = same

\* C14, first half: a stabilized fingerprint equal to the recorded one gives
\* changed=false, and neither the contract nor its file is touched.
C14_Unchanged ==
    RefreshedWith(TRUE) =>
        /\ fret = [changed |-> FALSE, err |-> NoErr]
        /\ result = start.result
        /\ file = start.file

\* C14 as stated: ... and a different one sets the in-memory fingerprint,
\* persists all six fields and gives changed=true.
C14_AsStated ==
    /\ C14_Unchanged
    /\ RefreshedWith(FALSE) =>
        /\ result = [start.result EXCEPT !.SSHHostFingerprint = stab.fp]
        /\ file = <<[VMName |-> result.VMName, IPAddress |-> result.IPAddress,
                     SSHUser |-> result.SSHUser, SSHPrivateKey |-> result.SSHPrivateKey,
                     SSHPort |-> result.SSHPort,
                     SSHHostFingerprint |-> stab.fp]>>
        /\ fret = [changed |-> TRUE, err |-> NoErr]

\* C14 (refresh result), amended: after stabilization yields F, the call
\* returns changed=false and touches nothing if F is the recorded
\* fingerprint; otherwise it sets the in-memory fingerprint to F (and nothing
\* else) and saves the contract: when the save succeeds the file holds all
\* six fields of the updated contract and the call returns changed=true, and
\* when the save fails the call returns changed=false with an error wrapping
\* the save error.
C14_RefreshResult ==
    /\ C14_Unchanged
    /\ RefreshedWith(FALSE) =>
        /\ result = [start.result EXCEPT !.SSHHostFingerprint = stab.fp]
        /\ IF fret.err = NoErr
           THEN /\ fret.changed
                /\ file = <<[VMName |-> result.VMName, IPAddress |-> result.IPAddress,
                             SSHUser |-> result.SSHUser,
                             SSHPrivateKey |-> result.SSHPrivateKey,
                             SSHPort |-> result.SSHPort,
                             SSHHostFingerprint |-> stab.fp]>>
           ELSE /\ ~fret.changed
                /\ Contains(fret.err, "update bootstrap result")

\* C14 witness: a changed fingerprint was saved over an older contract.
C14_Witness ==
    /\ RefreshedWith(FALSE)
    /\ fret.changed
    /\ start.file = <<StaleContract>>
    /\ start.result.SSHHostFingerprint # ""
    /\ file # start.file

\* The guards that make the call a no-op.
BlankPathOrHost ==
    /\ ~start.result.isNil
    /\ \/ TrimSpace(path) = ""
       \/ TrimSpace(start.result.IPAddress) = ""

\* C15 (refresh guards): with a nil contract the call returns an error; with
\* a contract and a blank path or a blank host address it returns
\* changed=false and no error; in both cases no scan is made and neither the
\* contract nor its file is touched.
C15_Guards ==
    (start.result.isNil \/ BlankPathOrHost) =>
        /\ fpc \in {"enter", "returned"}
        /\ probes = <<>>
        /\ result = start.result
        /\ file = start.file
        /\ fpc = "returned" =>
             /\ ~fret.changed
             /\ start.result.isNil => fret.err # NoErr
             /\ BlankPathOrHost => fret.err = NoErr

\* C15 witness: a call with a blank host address, a path and a contract
\* file has returned.
C15_Witness ==
    /\ ~start.result.isNil
    /\ path = "x.yaml"
    /\ start.result.IPAddress = ""
    /\ start.file # <<>>
    /\ fpc = "returned"

(***************************************************************************)
(* Properties of WaitForTCPPortWithStats                                   *)
(***************************************************************************)

\* The connection attempts made so far, as positions in the history.
DialEvents == {k \in 1..Len(dials) : dials[k] \in DialOutcomes \cup {"ctx"}}

\* Every attempt so far was refused or timed out, and ctx was never cancelled.
UnreachableUncancelled ==
    /\ ~wctx
    /\ \A k \in 1..Len(dials) : dials[k] \in {"refused", "timeout"}

\* C16 (connectivity bounds): a call never makes more than attempts
\* connection attempts; with attempts = n >= 1, every attempt failing and no
\* cancellation, it returns only after exactly n attempts, with Attempts = n
\* and a failure error that names n and wraps the last attempt's error.
C16_ConnectivityBounds ==
    /\ Cardinality(DialEvents) <= attempts
    /\ (attempts >= 1 /\ UnreachableUncancelled /\ wpc = "returned") =>
         /\ Len(dials) = attempts
         /\ wret.stats.Attempts = attempts
         /\ wret.err = <<"ssh connectivity failed after", Itoa(attempts), "attempts">>
                         \o DialError(dials[attempts])

\* C16 witness: three attempts, the last failing differently from the others.
C16_Witness ==
    /\ attempts = 3
    /\ UnreachableUncancelled
    /\ wpc = "returned"
    /\ dials = <<"refused", "refused", "timeout">>

\* C17 (connectivity cancellation): when ctx is cancelled while the call
\* waits between attempts, after failed attempt j, nothing follows: no
\* further connection attempt is made and the call returns Attempts = j and
\* a cancellation error that names j and wraps ctx.Err().
C17_CancelWhileWaiting ==
    \A k \in 1..Len(dials) :
        dials[k] = "cancel in wait" =>
            LET j == Cardinality({d \in DialEvents : d < k})
            IN /\ k = Len(dials)
               /\ j >= 1
               /\ dials[k - 1] \in {"refused", "timeout"}
               /\ wpc = "returned"
               /\ wret.stats.Attempts = j
               /\ Contains(wret.err, "ssh connectivity canceled after")
               /\ Contains(wret.err, Itoa(j))
               /\ Contains(wret.err, CanceledErr)

\* C17 witness: cancelled in the wait after the second of three attempts.
C17_Witness ==
    /\ attempts = 3
    /\ Len(dials) = 3
    /\ dials[3] = "cancel in wait"
    /\ wpc = "returned"

(***************************************************************************)
(* Properties of summarizeSSHStderr / formatSSHRunError                    *)
(***************************************************************************)

\* A text that holds one of the markers of a progress line.
HasNoiseMarker(text) ==
    \E marker \in {"% Total", "Dload", "--:--:--"} : StrContains(text, marker)

\* The informative lines of the input: neither blank nor a progress line,
\* without the white space around them, in their order.
InformativeLines ==
    LET Keep(l) == TrimSpace(l) # "" /\ ~HasNoiseMarker(l)
        kept == SelectSeq(stderrIn, Keep)
    IN [k \in 1..Len(kept) |-> TrimSpace(kept[k])]

\* C18: whatever stderr is, the summary (and so the text put into the error)
\* holds no progress line, also when every non-blank line of stderr is one.
C18_NoNoiseInSummary ==
    /\ spc \in {"summarized", "formatted"} => ~HasNoiseMarker(summary)
    /\ (spc = "formatted" /\ Len(fmtErr) = 3) => ~HasNoiseMarker(fmtErr[3])

\* C19 (summary shape): with two or more informative lines the summary is
\* the last two, in their order, joined by " | "; with one it is that line;
\* and the text put into the error is the summary, cut to its first 360
\* characters and followed by "..." when it is longer than that.
C19_SummaryShape ==
    LET inf == InformativeLines
        n   == Len(inf)
    IN /\ (spc \in {"summarized", "formatted"} /\ n >= 2) =>
            summary = inf[n - 1] \o " | " \o inf[n]
       /\ (spc \in {"summarized", "formatted"} /\ n = 1) => summary = inf[1]
       /\ (spc = "formatted" /\ n >= 1) =>
            /\ Len(fmtErr) = 3
            /\ IF Len(summary) <= 360
               THEN fmtErr[3] = summary
               ELSE /\ fmtErr[3] = SubSeq(summary, 1, 360) \o "..."
                    /\ Len(fmtErr[3]) = 363

\* C19 witness: three informative lines, the last one long, so that the
\* summary drops the first and is cut.
C19_Witness ==
    /\ spc = "formatted"
    /\ Len(InformativeLines) = 3
    /\ InformativeLines[1] # InformativeLines[2]
    /\ Len(summary) > 360
    /\ Len(fmtErr[3]) = 363

(***************************************************************************)
(* Properties of two runs of the pipeline                                  *)
(***************************************************************************)

\* The machine is at target state for the configuration: hardening files
\* identical, Docker and talosctl at the configured versions, a single-node
\* cluster running with its artifacts.
AtTarget(h, c) ==
    /\ c.HardeningEnabled =>
         /\ h.pkgs
         /\ h.sshDropin = (IF c.AllowPasswordSSH THEN "yes" ELSE "no")
         /\ h.sysctl = "target"
         /\ h.unattended
         /\ c.EnableUFW => (h.ufwDefaults /\ h.ufwAllow22 /\ h.ufwEnabled)
    /\ h.docker = "target" /\ h.dockerRunning /\ h.inDockerGroup
    /\ h.talosctl = "target"
    /\ h.cluster = "single" /\ h.artifacts /\ h.mountSrc

\* C20 (idempotence): a second run against a machine the first run left at
\* target state executes read-only commands only, leaves the machine as it
\* was, and, the machine being reachable, ends with five "success" steps.
C20_Idempotence ==
    (pass = 2 /\ AtTarget(host0, hcfg)) =>
        /\ \A k \in 1..Len(remoteOps) : ~remoteOps[k].mutating
        /\ host = host0
        /\ (Len(presults) >= 1 /\ presults[1].Status = "success" /\ pstep \in {0, 6}) =>
             /\ Len(presults) = 5
             /\ \A k \in 1..5 : presults[k].Status = "success"

\* The same without the clause on the commands: what the second run does
\* keep to.
SecondRunKeepsTarget ==
    (pass = 2 /\ AtTarget(host0, hcfg)) =>
        /\ host = host0
        /\ (Len(presults) >= 1 /\ presults[1].Status = "success" /\ pstep \in {0, 6}) =>
             /\ Len(presults) = 5
             /\ \A k \in 1..5 : presults[k].Status = "success"

(***************************************************************************)
(* Properties of bootstrap.Run: status, ordering, heartbeat                *)
(***************************************************************************)

\* The step actions that have returned, as the step functions decide it.
AllFiveSucceeded ==
    Len(invoked) = total /\ \A k \in 1..total : stepFn[k] = Nil

SomeStepFailed == \E k \in 1..Len(invoked) : stepFn[k] # Nil

\* C21 (run status): the result is "running" while Run is at work; the
\* result Run returns has status planned, success or failed, never running;
\* planned iff dry-run, success iff all five step actions succeeded, failed
\* iff some step action failed; the returned error is non-nil iff the status
\* is failed, and then the result's Error is non-empty and is the error's text.
C21_RunStatus ==
    /\ rpc \in {"loop", "inflight"} => res.Status = "running"
    /\ rpc = "returned" =>
         /\ ret.res.Status \in {"planned", "success", "failed"}
         /\ ret.res.Status = "planned" <=> opts.DryRun
         /\ ret.res.Status = "success" <=> AllFiveSucceeded
         /\ ret.res.Status = "failed" <=> SomeStepFailed
         /\ ret.err # NoErr <=> ret.res.Status = "failed"
         /\ ret.res.Status = "failed" =>
              /\ ret.res.Error # <<>>
              /\ ret.res.Error = ret.err

\* C21 witness: a run that went through "running" and returned failed at
\* its second step, with the error text in both places.
C21_Witness ==
    /\ rpc = "returned"
    /\ ret.res.Status = "failed"
    /\ ret.err = StepFailedText("os_hardening", "boom")
    /\ ret.res.Error = ret.err

\* How many step actions have been called and have not returned.
InFlight == Len(invoked) - Len(res.Steps)

\* C22 (sequential ordering): in a Run that executes, step actions are
\* started in the fixed order, at most one is in flight at any time, and
\* the action of step n+1 is started only after that of step n has returned
\* without error.
C22_SequentialOrder ==
    ~opts.DryRun =>
        /\ Len(invoked) <= total
        /\ \A n \in 1..Len(invoked) : invoked[n] = FixedOrder[n]
        /\ InFlight \in {0, 1}
        /\ InFlight = 1 <=> rpc = "inflight"
        /\ \A n \in 2..Len(invoked) :
              /\ Len(res.Steps) >= n - 1
              /\ res.Steps[n - 1].Name = FixedOrder[n - 1]
              /\ res.Steps[n - 1].Status = "success"
              /\ stepFn[n - 1] = Nil

\* C22 witness: the fifth action is in flight after four successes.
C22_Witness ==
    /\ ~opts.DryRun
    /\ rpc = "inflight"
    /\ invoked = FixedOrder
    /\ Len(res.Steps) = 4

\* Position of the "recorded" entry of a step in hbTrace; 0 when there is none.
RecordedAt(name) ==
    IF \E n \in 1..Len(hbTrace) : hbTrace[n] = HbEv("recorded", name)
    THEN CHOOSE n \in 1..Len(hbTrace) : hbTrace[n] = HbEv("recorded", name)
    ELSE 0

\* The stop signal: once a step's result is recorded, the done channel of
\* its heartbeat is closed, whether the action failed or not.
HeartbeatStopSignalled ==
    \A k \in 1..total :
        (hb[k].st # "none" /\ RecordedAt(steps[k].name) # 0) => hb[k].done

\* A heartbeat line of a step was printed after the step's result was recorded.
LateHeartbeat ==
    \E n \in 1..Len(hbTrace) :
        /\ hbTrace[n].ev = "heartbeat"
        /\ RecordedAt(hbTrace[n].step) # 0
        /\ n > RecordedAt(hbTrace[n].step)

\* Run has returned and a heartbeat goroutine has not.
LeftRunning ==
    rpc = "returned" /\ \E k \in 1..total : hb[k].st = "select"

\* C23 (heartbeat teardown): the heartbeat of a step is signalled to stop
\* when the step's action returns; no heartbeat line of a step is printed
\* after the step's result was recorded; no heartbeat goroutine is still
\* running when Run returns.
C23_HeartbeatTeardown ==
    /\ HeartbeatStopSignalled
    /\ ~LateHeartbeat
    /\ ~LeftRunning

(***************************************************************************)
(* Properties of the trust store and of ensureExpectedHostKey              *)
(***************************************************************************)

\* The lines of a store that belong to cfg.Host, and the others, in order.
HostLines(store) ==
    LET Mine(line) == line.host = knownHostsTarget
    IN SelectSeq(store, Mine)

OtherLines(store) ==
    LET NotMine(line) == line.host # knownHostsTarget
    IN SelectSeq(store, NotMine)

\* The forgets and appends of the call, as positions in the trace.
Forgets == {k \in 1..Len(trace) : trace[k].op = "remove"}
Appends == {k \in 1..Len(trace) : trace[k].op = "append" /\ trace[k].ok}

LastOf(S) == CHOOSE k \in S : \A j \in S : j <= k

\* The most recent trust write is complete and its forget worked.
LastWriteComplete ==
    /\ Appends # {}
    /\ LastOf(Forgets) < LastOf(Appends)
    /\ trace[LastOf(Forgets)].arg = "removed"

\* C24 (trust-store replacement): every append of a trust write comes after
\* a forget of the same write; when the forget worked, the store then holds,
\* for the host, exactly the raw entry of the most recent write and nothing
\* older, and the entries of other hosts are as they were.
C24_TrustStoreReplacement ==
    /\ \A k \in Appends :
          \E j \in Forgets :
              /\ j < k
              /\ \A i \in (j + 1)..(k - 1) : trace[i].op \notin {"remove", "append"}
              /\ \A i \in Appends : ~(j < i /\ i < k)
    /\ LastWriteComplete =>
          /\ HostLines(knownHosts) = trace[LastOf(Appends)].lines
          /\ OtherLines(knownHosts) = OtherLines(kh0)

\* C24 witness: a store with a stale entry and another host's entry went
\* through two trust writes in one call, the second replacing the first's
\* entry by a different one.
C24_Witness ==
    /\ LastWriteComplete
    /\ Cardinality(Appends) = 2
    /\ HostLines(kh0) # <<>>
    /\ OtherLines(kh0) # <<>>
    /\ \E k \in Appends : k # LastOf(Appends) /\ trace[k].lines # trace[LastOf(Appends)].lines
    /\ trace[LastOf(Appends)].lines # <<>>
    /\ xpc = "done"

\* C25 (no expected fingerprint): with cfg.ExpectedHostKeySHA256 empty,
\* ensureExpectedHostKey returns nil in every trust mode, and up to its
\* return nothing was scanned, the prompt callback was not called and
\* known_hosts was neither read nor written: the first interaction of the
\* call, if any, is the ssh run itself.
C25_NoExpectedNoOp ==
    expected = "" =>
        /\ xpc # "ensure" => EnsureSucceeded
        /\ trace # <<>> => trace[1].op = "ssh"
        /\ SSHRuns = {} => (trace = <<>> /\ knownHosts = kh0)

\* C25 witness: auto-refresh mode with a callback and a non-empty store;
\* ensureExpectedHostKey has returned and nothing has happened yet.
C25_Witness ==
    /\ expected = ""
    /\ mode = "auto-refresh"
    /\ cfg.Prompt = "set"
    /\ cfg.KnownHostsFile # ""
    /\ kh0 # <<>>
    /\ EnsureSucceeded
    /\ xpc = "run"
    /\ trace = <<>>

\* The configurations in which runSSHCommand never recovers.
NoRecoveryConfig == mode \in {"strict", "accept-new"} \/ cfg.KnownHostsFile = ""

\* known_hosts as ensureExpectedHostKey left it, from the history of the call:
\* untouched, or the start store after the forget, with the entry appended.
StoreAsEnsureLeftIt ==
    IF EnsureAppends = {}
    THEN kh0
    ELSE LET k == LastOf(EnsureAppends)
         IN (IF trace[k - 1].arg = "removed" THEN OtherLines(kh0) ELSE kh0)
                \o trace[k].lines

\* C30 (no recovery): in strict or accept-new mode, or with no known_hosts
\* file configured, a failed ssh run ends the call whatever its stderr says:
\* ssh ran once, nothing follows it (no prompt, no forget, no scan, no
\* append, no second run), known_hosts is as ensureExpectedHostKey left it
\* and the call returns the failure of that run.
C30_NoRecovery ==
    (NoRecoveryConfig /\ SSHRuns # {} /\ ~trace[FirstSSH].ok) =>
        LET e == trace[FirstSSH]
        IN /\ Cardinality(SSHRuns) = 1
           /\ FirstSSH = Len(trace)
           /\ \A k \in 1..Len(trace) : trace[k].op # "prompt"
           /\ knownHosts = StoreAsEnsureLeftIt
           /\ xpc = "done"
           /\ xret.stderr = e.lines
           /\ xret.err = formatSSHRunError(Prefix(loc.kind), e.arg, e.lines)

\* C30 witness: accept-new mode trusted the matching key, then the command
\* failed with the host-identification-changed text and the call returned.
C30_Witness ==
    /\ mode = "accept-new"
    /\ cfg.KnownHostsFile # ""
    /\ EnsureAppends # {}
    /\ SSHRuns # {}
    /\ ~trace[FirstSSH].ok
    /\ HasChangedSignature(trace[FirstSSH].lines)
    /\ knownHosts # kh0
    /\ xpc = "done"

(***************************************************************************)
(* Properties of stabilizeHostFingerprint: failed scans                    *)
(***************************************************************************)

\* The error of the last scan that returned one; NoErr when none did.
LastProbeErr ==
    LET E == {k \in 1..Len(probes) : probes[k].err # NoErr}
    IN IF E = {} THEN NoErr ELSE probes[LastOf(E)].err

\* C28 (failed scans are not fatal): stabilizeHostFingerprint fails only
\* once its deadline has passed, and its error then carries the context's
\* error and, when some scan returned an error, the last such error; before
\* the deadline a scan that failed or came back empty leaves the loop
\* running; and whenever the two most recent non-empty scans agree, empty
\* and failed scans in between or before notwithstanding, the fingerprint is
\* returned.
C28_FailedScansNotFatal ==
    /\ (stab.returned /\ stab.err # NoErr) =>
         /\ ctxDone
         /\ stab.fp = ""
         /\ stab.err =
               IF LastProbeErr = NoErr
               THEN <<"stabilize ssh host fingerprint", "context deadline exceeded">>
               ELSE <<"stabilize ssh host fingerprint", "context deadline exceeded",
                      "last probe error">> \o LastProbeErr
         /\ fpc = "returned" /\ fret.err = stab.err /\ ~fret.changed
    /\ (probes # <<>> /\ ~IsObservation(probes[Len(probes)]) /\ ~ctxDone) =>
         /\ ~stab.returned
         /\ fpc \in {"sleep", "head", "probe"}
    /\ (probes # <<>> /\ IsObservation(probes[Len(probes)]) /\ Len(Observed) >= 2
          /\ Observed[Len(Observed)] = Observed[Len(Observed) - 1]) =>
         /\ Stabilized
         /\ stab.fp = Observed[Len(Observed)]

\* C28 witness: a scan that failed and a scan that came back empty lie
\* between the two agreeing scans, and the fingerprint was returned.
C28_Witness ==
    /\ Stabilized
    /\ Len(probes) = 4
    /\ IsObservation(probes[1])
    /\ probes[2].err # NoErr
    /\ probes[3] = [fp |-> "", err |-> NoErr]
    /\ stab.fp = probes[1].fp

(***************************************************************************)
(* Properties of buildSSHArgs                                              *)
(***************************************************************************)

HasArg(a) == \E k \in 1..Len(sshArgs) : sshArgs[k] = a

\* Some "-o" option of the invocation sets the given ssh option.
SetsOption(name) ==
    \E k \in 2..Len(sshArgs) :
        /\ sshArgs[k - 1] = "-o"
        /\ Len(sshArgs[k]) > Len(name)
        /\ SubSeq(sshArgs[k], 1, Len(name) + 1) = name \o "="

\* The spellings of ArgModes that mean accept-new once trimmed and
\* lower-cased.
AcceptNewSpellings == {"accept-new", "accept_new", " Accept-New "}

\* The strictness flag is accept-new exactly for the accept-new spellings and
\* yes for every other mode, with or without a trust store.
StrictnessFromMode ==
    apc = "built" =>
        /\ HasArg("StrictHostKeyChecking=accept-new")
               <=> acfg.KnownHostsMode \in AcceptNewSpellings
        /\ HasArg("StrictHostKeyChecking=yes")
               <=> acfg.KnownHostsMode \notin AcceptNewSpellings
        /\ SetsOption("StrictHostKeyChecking")

\* The session is pointed at cfg.KnownHostsFile exactly when that string is
\* not the empty string.
StoreWhenNonEmpty ==
    apc = "built" =>
        /\ SetsOption("UserKnownHostsFile") <=> acfg.KnownHostsFile # ""
        /\ acfg.KnownHostsFile # ""
               => HasArg("UserKnownHostsFile=" \o acfg.KnownHostsFile)

\* C29: the session relaxes first-contact verification (accept-new) if and
\* only if the normalized trust mode is accept-new and requires pre-existing
\* trust (yes) for strict, prompt, auto-refresh, empty and unrecognised
\* modes; and it is pointed at the trust store if and only if a trust-store
\* path is configured, a path of blanks being no path, as it is for
\* ensureExpectedHostKey, shouldAutoRefreshKnownHost and Config.Validate.
C29_SessionStrictness ==
    apc = "built" =>
        /\ HasArg("StrictHostKeyChecking=accept-new")
               <=> acfg.KnownHostsMode \in AcceptNewSpellings
        /\ acfg.KnownHostsMode \notin AcceptNewSpellings
               => HasArg("StrictHostKeyChecking=yes")
        /\ SetsOption("UserKnownHostsFile") <=> TrimSpace(acfg.KnownHostsFile) # ""

\* A session built for a trust-store path of blanks.
BlankStoreSession ==
    /\ apc = "built"
    /\ acfg.KnownHostsFile # ""
    /\ TrimSpace(acfg.KnownHostsFile) = ""
    /\ SetsOption("UserKnownHostsFile")

(***************************************************************************)
(* Properties of Config.Validate and of the two commands                   *)
(***************************************************************************)

\* bootstrap.Run has been called.
RunStarted == \E k \in 1..Len(cevents) : cevents[k] = "run"

\* prompt and auto-refresh need a trust-store path, and so does an expected
\* fingerprint.
TrustInvariant(c) ==
    /\ ToLower(TrimSpace(c.KnownHostsMode)) \in {"prompt", "auto-refresh", "auto_refresh"}
           => TrimSpace(c.KnownHostsFile) # ""
    /\ TrimSpace(c.SSHHostFingerprint) # "" => TrimSpace(c.KnownHostsFile) # ""

CanonicalModes == {"strict", "prompt", "accept-new", "auto-refresh"}

\* What a mode may be once trimmed and lower-cased: a canonical mode, an
\* underscore spelling, or nothing (strict).
RecognisedSpellings == CanonicalModes \cup {"", "accept_new", "auto_refresh"}

\* Every accepted configuration satisfies the trust invariant, and
\* bootstrap.Run only ever gets an accepted configuration.
AcceptedKeepInvariant ==
    /\ \A c \in accepted : TrustInvariant(c)
    /\ RunStarted => runCfg \in accepted

\* C26 as stated: every accepted configuration (so every configuration the
\* orchestrator runs with, merged ones included) has a non-blank trust-store
\* path when its mode is prompt or auto-refresh and when a fingerprint is
\* set, and a configuration whose trust mode is not one of strict, prompt,
\* accept-new, auto-refresh is rejected.
C26_AsStated ==
    /\ AcceptedKeepInvariant
    /\ \A c \in accepted : c.KnownHostsMode \in CanonicalModes

\* C26, amended: every accepted configuration (so every configuration the
\* orchestrator runs with, merged ones included) has a non-blank trust-store
\* path when its mode is prompt or auto-refresh and when a fingerprint is
\* set; a mode is rejected, with an error, exactly when trimming and
\* lower-casing it gives none of strict, prompt, accept-new, auto-refresh,
\* accept_new, auto_refresh or the empty string.
C26_ConfigInvariant ==
    /\ AcceptedKeepInvariant
    /\ \A c \in accepted : ToLower(TrimSpace(c.KnownHostsMode)) \in RecognisedSpellings
    /\ (cpc # "load"
        /\ ToLower(TrimSpace(rawCfg.KnownHostsMode)) \notin RecognisedSpellings)
           => cpc = "returned" /\ cret # Nil /\ accepted = {}

\* The run of a merged configuration in prompt mode whose fingerprint came
\* from the contract.
C26_Witness ==
    /\ RunStarted
    /\ command = "provision-and-bootstrap"
    /\ ToLower(TrimSpace(runCfg.KnownHostsMode)) = "prompt"
    /\ rawCfg.SSHHostFingerprint = ""
    /\ runCfg.SSHHostFingerprint = "SHA256:old"
    /\ TrimSpace(runCfg.KnownHostsFile) # ""

\* A configuration whose mode is not spelled canonically was accepted.
AcceptedAlias == \E c \in accepted : c.KnownHostsMode \in {"", "accept_new", "Auto_Refresh"}

\* A configuration with an unknown mode was rejected.
RejectedUnknownMode ==
    /\ rawCfg.KnownHostsMode = "weird"
    /\ rawCfg.Host # "" /\ rawCfg.VMFieldsValid
    /\ cpc = "returned"
    /\ cret = "vm.known_hosts_mode must be one of: strict, prompt, accept-new, auto-refresh"

Position(ev) == CHOOSE k \in 1..Len(cevents) : cevents[k] = ev

RefreshSucceeded == \E k \in 1..Len(cevents) : cevents[k] = "refresh-ok"

RefreshFailed == \E k \in 1..Len(cevents) : cevents[k] = "refresh-err"

\* C27: in provision-and-bootstrap, once the fingerprint refresh has been
\* invoked and has returned without error, the bootstrap.Run that follows
\* gets trust mode strict whatever mode was configured, and the refresh has
\* returned before bootstrap.Run is called; after a failed refresh
\* bootstrap.Run is not called at all.
C27_StrictAfterRefresh ==
    /\ (RefreshSucceeded /\ RunStarted)
           => /\ Position("refresh-ok") < Position("run")
              /\ ToLower(TrimSpace(runCfg.KnownHostsMode)) = "strict"
    /\ RefreshFailed => ~RunStarted
    /\ (RunStarted /\ bootstrapFromRun) => RefreshSucceeded

\* bootstrap.Run called after a successful refresh, on a configuration that
\* asked for auto-refresh.
C27_Witness ==
    /\ RefreshSucceeded
    /\ RunStarted
    /\ rawCfg.KnownHostsMode = "Auto_Refresh"
    /\ runCfg.KnownHostsMode = "strict"

(***************************************************************************)
(* Properties of ensureStableScannedHostKey: the delay                     *)
(***************************************************************************)

\* The delay of the stabilization check was cut short by ctx.
DelayInterrupted == \E k \in 1..Len(trace) : trace[k].op = "sleep" /\ ~trace[k].ok

\* C31: when ctx is done during the 800 ms delay of the stabilization check,
\* the check returns ctx's error without a second scan: nothing follows the
\* interrupted delay, ensureExpectedHostKey has failed with that error, the
\* call has returned it, and known_hosts is as it was.
C31_DelayInterruptible ==
    \A k \in 1..Len(trace) :
        (trace[k].op = "sleep" /\ ~trace[k].ok)
            => /\ k = Len(trace)
               /\ ens = [returned |-> TRUE, err |-> <<"context canceled">>]
               /\ xpc = "done"
               /\ xret = [stdout |-> "", stderr |-> <<>>, err |-> <<"context canceled">>]
               /\ knownHosts = kh0

\* A mismatch in auto-refresh mode whose stabilization delay was interrupted.
C31_Witness ==
    /\ DelayInterrupted
    /\ xpc = "done"
    /\ Len(trace) = 2
    /\ trace[1].op = "scan" /\ trace[1].ok
    /\ kh0 # <<>>

(***************************************************************************)
(* Properties of stabilizeHostFingerprint: cancellation                    *)
(***************************************************************************)

\* Every error of the stabilization loop wraps ctx's error, and a loop whose
\* ctx is done at the loop head scans no more.
CancelledReturnsCtxError ==
    (stab.returned /\ stab.err # NoErr)
        => /\ ctxDone
           /\ Contains(stab.err, CtxErr)
           /\ fret = [changed |-> FALSE, err |-> stab.err]

\* C32: the pause between two scans of the refresh workflow is interruptible:
\* once ctx is done the loop leaves its pause without waiting it out, scans
\* no more and returns an error wrapping ctx's error.
C32_PauseInterruptible ==
    /\ ~overslept
    /\ CancelledReturnsCtxError

\* A call that failed on its deadline after a pause it waited out in full
\* with ctx done.
SleptThroughCancel ==
    /\ overslept
    /\ fpc = "returned"
    /\ Contains(fret.err, CtxErr)

(***************************************************************************)
(* Properties of stabilizeHostFingerprint: what a failed scan leaves alone *)
(***************************************************************************)

\* How many of the last observations are the same fingerprint.
TrailingRun(o) ==
    Cardinality({k \in 1..Len(o) : \A j \in k..Len(o) : o[j] = o[Len(o)]})

\* C36: in the stabilization loop a failed or empty scan leaves prev and
\* consecutive as they were: both are what the non-empty scans alone make
\* them (the last observed fingerprint, and the number of times it was
\* observed in a row, failed and empty scans left out), so two identical
\* non-empty scans with only failed or empty scans between them are accepted
\* as stable.
C36_FailedScanFrame ==
    LET o == Observed
    IN /\ prev = IF o = <<>> THEN "" ELSE o[Len(o)]
       /\ consecutive = TrailingRun(o)
       /\ (Len(o) >= 2 /\ o[Len(o)] = o[Len(o) - 1] /\ fpc # "probe")
              => Stabilized /\ stab.fp = o[Len(o)]

\* Scans A, error, A returned A.
C36_Witness ==
    /\ Len(probes) = 3
    /\ probes[1] = [fp |-> "SHA256:A", err |-> NoErr]
    /\ probes[2].err # NoErr
    /\ probes[3] = [fp |-> "SHA256:A", err |-> NoErr]
    /\ Stabilized
    /\ stab.fp = "SHA256:A"

(***************************************************************************)
(* Properties of RefreshBootstrapFingerprint: changed=false                *)
(***************************************************************************)

\* The call failed to save the contract.
SaveFailed == fpc = "returned" /\ Contains(fret.err, "update bootstrap result")

\* Without a failed save, changed=false leaves the whole in-memory contract
\* as it was.
UnchangedUnlessSaveFailed ==
    (fpc = "returned" /\ ~fret.changed /\ ~SaveFailed) => result = start.result

\* C37: whenever the call returns changed=false (unchanged fingerprint, guard
\* no-op, stabilization error, or a failure to save the contract file), the
\* in-memory contract's fingerprint is what it was before the call.
C37_UnchangedKeepsFingerprint ==
    (fpc = "returned" /\ ~fret.changed)
        => result.SSHHostFingerprint = start.result.SSHHostFingerprint

\* changed=false after a failed save, with the in-memory fingerprint replaced.
SaveFailedFingerprintReplaced ==
    /\ SaveFailed
    /\ ~fret.changed
    /\ result.SSHHostFingerprint # start.result.SSHHostFingerprint

(***************************************************************************)
(* Properties of WaitForTCPPortWithStats: the first connection             *)
(***************************************************************************)

\* C33: the call stops at the first connection: when attempt k is the first
\* to connect, the connection is closed, nothing follows (no further attempt,
\* no wait), and the call returns nil with Attempts = k <= attempts; the call
\* returns nil only when some attempt connected, and with attempts <= 0 it
\* makes no attempt and returns an error with Attempts = 0.
C33_StopsAtFirstConnection ==
    /\ \A k \in 1..Len(dials) :
          dials[k] = "connected" =>
              LET n == Cardinality({d \in DialEvents : d <= k})
              IN /\ Len(dials) = k + 1
                 /\ dials[k + 1] = "close"
                 /\ \A j \in 1..(k - 1) : dials[j] \notin {"connected", "close"}
                 /\ wpc = "returned"
                 /\ wret = [stats |-> [Attempts |-> n], err |-> NoErr]
                 /\ n <= attempts
    /\ (wpc = "returned" /\ wret.err = NoErr)
           => \E k \in 1..Len(dials) : dials[k] = "connected"
    /\ attempts <= 0
           => /\ DialEvents = {}
              /\ wpc = "returned" => (wret.err # NoErr /\ wret.stats.Attempts = 0)

\* The second of three allowed attempts connected.
C33_Witness ==
    /\ attempts = 3
    /\ dials = <<"refused", "connected", "close">>
    /\ wpc = "returned"
    /\ wret.stats.Attempts = 2

\* A call with attempts = 0 has returned.
NoAttemptAllowed == attempts = 0 /\ wpc = "returned" /\ wret.err # NoErr

(***************************************************************************)
(* Properties of bootstrap.Run: the step list                              *)
(***************************************************************************)

\* The step list of a Run that executes: a prefix of the fixed order, all
\* successes except possibly a failed last entry, which is there exactly
\* when the run's status is failed.
StepListShape ==
    ~opts.DryRun =>
        LET S == res.Steps
            n == Len(S)
        IN /\ n <= total
           /\ \A k \in 1..n : S[k].Name = FixedOrder[k]
           /\ \A k \in 1..n : S[k].Status \in {"success", "failed"}
           /\ \A k \in 1..(n - 1) : S[k].Status = "success"
           /\ (n > 0 /\ S[n].Status = "failed") <=> res.Status = "failed"
           /\ rpc = "returned" => ret.res = res

\* A step of Run only appends to the step list.
StepListGrows ==
    /\ Len(res.Steps') >= Len(res.Steps)
    /\ SubSeq(res.Steps', 1, Len(res.Steps)) = res.Steps

\* C35: at every point of a Run that executes, and in the result it returns,
\* the recorded steps are a prefix of the fixed step order, recorded entries
\* are never changed or removed, every entry is a success except possibly the
\* last, the last is failed exactly when the run's status is failed, and no
\* entry is planned, skipped or in_progress.
C35_StepListShape == []StepListShape /\ [][StepListGrows]_vars

\* A returned run with three successes and a failed fourth step.
C35_Witness ==
    /\ ~opts.DryRun
    /\ rpc = "returned"
    /\ Len(ret.res.Steps) = 4
    /\ ret.res.Steps[3].Status = "success"
    /\ ret.res.Steps[4].Status = "failed"
    /\ ret.res.Status = "failed"

(***************************************************************************)
(* Properties of runSSHCommand: a recovery whose scan fails                *)
(***************************************************************************)

\* The scan of autoRefreshKnownHost returned an error.
RecoveryScanFailed ==
    /\ SSHRuns # {}
    /\ \E k \in (FirstSSH + 1)..Len(trace) : trace[k].op = "scan" /\ ~trace[k].ok

\* The forget of the recovery removed the host's lines.
RecoveryForgot ==
    \E k \in (FirstSSH + 1)..Len(trace) : trace[k].op = "remove" /\ trace[k].arg = "removed"

\* After a recovery whose scan failed the command is not retried, the call
\* returns the failure of the first run, and known_hosts is what it was
\* before the recovery less what the forget took out.
FailedRecoveryNoRetry ==
    RecoveryScanFailed =>
        LET e == trace[FirstSSH]
        IN /\ Cardinality(SSHRuns) = 1
           /\ xpc = "done"
           /\ xret.stderr = e.lines
           /\ xret.err = formatSSHRunError(Prefix(loc.kind), e.arg, e.lines)
           /\ knownHosts = IF RecoveryForgot THEN OtherLines(StoreAsEnsureLeftIt)
                           ELSE StoreAsEnsureLeftIt

\* C38: when the in-call trust recovery fails because its scan returns an
\* error, known_hosts is as it was before the recovery started, the host's
\* previous entry still in it, the command is not retried, and the call
\* returns the failure of the first run.
C38_FailedRecoveryKeepsStore ==
    RecoveryScanFailed =>
        LET e == trace[FirstSSH]
        IN /\ knownHosts = StoreAsEnsureLeftIt
           /\ Cardinality(SSHRuns) = 1
           /\ xpc = "done"
           /\ xret.err = formatSSHRunError(Prefix(loc.kind), e.arg, e.lines)

\* A recovery whose scan failed after its forget had removed the entry the
\* host had: the store holds no entry for the host any more.
FailedRecoveryLostEntry ==
    /\ RecoveryScanFailed
    /\ HostLines(StoreAsEnsureLeftIt) # <<>>
    /\ HostLines(knownHosts) = <<>>
    /\ xpc = "done"

(***************************************************************************)
(* Properties of runSSHCommand: the prompt callback                        *)
(***************************************************************************)

\* The calls of cfg.Prompt, as positions in the history.
Prompts == {k \in 1..Len(trace) : trace[k].op = "prompt"}

\* C39: the prompt callback is called only in prompt mode, never in strict,
\* accept-new or auto-refresh mode, and at most twice in one call: at most
\* once by ensureExpectedHostKey, right after a scan that does not hold the
\* expected fingerprint, and at most once by runSSHCommand, right after a
\* first ssh run that failed with the host-identity-changed signature.
C39_PromptOnlyInPromptMode ==
    /\ Prompts # {} => (cfg.KnownHostsMode = "prompt" /\ cfg.Prompt = "set")
    /\ Cardinality(Prompts) <= 2
    /\ \A k \in Prompts :
          \/ /\ k = 2
             /\ SSHRuns # {} => k < FirstSSH
             /\ trace[1].op = "scan" /\ trace[1].ok
             /\ expected # ""
             /\ expected \notin trace[1].fps
          \/ /\ SSHRuns # {}
             /\ k = FirstSSH + 1
             /\ ~trace[FirstSSH].ok
             /\ HasChangedSignature(trace[FirstSSH].lines)

\* A call in which the callback was asked twice and approved both times.
C39_Witness ==
    /\ Cardinality(Prompts) = 2
    /\ \A k \in Prompts : trace[k].arg = "yes"
    /\ xpc = "done"

(***************************************************************************)
(* Properties of two invocations writing one known_hosts file              *)
(***************************************************************************)

\* Where in wlog invocation w's remove / append stands (0: it has not run).
WPos(w, op) ==
    LET at == {k \in 1..Len(wlog) : wlog[k].w = w /\ wlog[k].op = op}
    IN IF at = {} THEN 0 ELSE CHOOSE k \in at : TRUE

\* The last remove that worked (0: none did), and the appends after position k.
LastRemoved ==
    LET at == {k \in 1..Len(wlog) : wlog[k].op = "remove" /\ wlog[k].io = "removed"}
    IN IF at = {} THEN 0 ELSE CHOOSE k \in at : \A j \in at : j <= k

AppendsAfter(k) ==
    LET After(e) == e.op = "append"
    IN SelectSeq(SubSeq(wlog, k + 1, Len(wlog)), After)

\* Both invocations went through their whole write, and every step worked.
BothWrote ==
    \A w \in Writers :
        /\ writers[w].pc = "done"
        /\ wlog[WPos(w, "remove")].io = "removed"

\* The two writes overlapped: each invocation's remove ran before the other's
\* append.
Overlapped ==
    \E a, b \in Writers :
        /\ a # b
        /\ WPos(a, "remove") < WPos(b, "append")
        /\ WPos(b, "remove") < WPos(a, "append")

\* C34: the remove and the append of a trust write are two steps, and two
\* invocations writing for the same host are not serialized. The host's lines
\* in the file are always the lines appended since the last remove that
\* worked (on top of the host's initial lines while no remove has worked),
\* so once both invocations have written, the file holds two entries for the
\* host exactly when the two writes overlapped, and one entry otherwise.
C34_WritersNotSerialized ==
    /\ LET kept == IF LastRemoved = 0 THEN HostLines(wstore0) ELSE <<>>
           added == AppendsAfter(LastRemoved)
       IN HostLines(wstore) = kept \o [k \in 1..Len(added) |-> writers[added[k].w].entry]
    /\ OtherLines(wstore) = OtherLines(wstore0)
    /\ BothWrote =>
          /\ Overlapped <=> Len(HostLines(wstore)) = 2
          /\ ~Overlapped <=> Len(HostLines(wstore)) = 1

\* Both invocations wrote, every remove worked, and the file holds one entry
\* of each for the host.
C34_Witness ==
    /\ BothWrote
    /\ Len(HostLines(wstore)) > 1
    /\ \A w \in Writers : \E k \in 1..Len(wstore) : wstore[k] = writers[w].entry

====
